---- MODULE Spec2Model ----
(***************************************************************************)
(* Deployment queue / worker engine and streaming fan-out of               *)
(* liteshift-host (DeploymentManager in src/lib/scheduler.ts, the          *)
(* deployment_queue table of src/lib/db.ts and the deploy:* socket         *)
(* handlers of src/routes/deploy.ts).                                      *)
(*                                                                         *)
(* Node runs every callback to its next real suspension point, so one      *)
(* action is one run of a handler, timer callback or pipeline continuation *)
(* from the point where it is resumed to the next await on external I/O.   *)
(***************************************************************************)
EXTENDS Integers, Sequences, FiniteSets, TLC

\* ---------------------------------------------------------------- bounds
MaxEntries == 2          \* rows the deployment_queue table may hold
MaxTick == 1             \* created_at values are 0..MaxTick (seconds)
MaxStreamId == 1         \* queue ids named in start-stream / stop-stream
MaxHandlers == 2         \* 'disconnect' listeners registered per socket
MaxDeletes == 1          \* deleteApp invocations that get past their check
MaxStarts == 3           \* journalctl subprocesses and interval timers started

AppNames == {"a"}
Ids == 1..MaxEntries
Observers == {"A", "B"}   \* socket connections
StreamIds == 1..MaxStreamId

VARIABLES
    queue,              \* deployment_queue rows, index = AUTOINCREMENT id
    apps,               \* apps table: name -> "none" | "norepo" | "repo"
    tmp,                \* <apps>/.temp/queue_<id>.zip per id
    deployments,        \* deployments rows, index = AUTOINCREMENT id
    isProcessing,       \* DeploymentManager.isProcessing
    passes,             \* running processQueue invocations (their locals)
    nudges,             \* pending setTimeout(processQueue, 100)
    periodic,           \* pending setTimeout(processQueue, 5000)
    runs,               \* history: pipeline invocations per queue id
    io,                 \* DeploymentManager.io is set
    activeStreams,      \* DeploymentManager.activeStreams
    conn,               \* socket state: "new" | "open" | "closed"
    deploymentStreams,  \* socket.data.deploymentStreams: "undef" or a set
    handlers,           \* socket 'disconnect' listeners, each closes over a queueId
    emitted,            \* events io.emit()ed by the last step
    response,           \* callback payload sent by the last step
    domains,            \* app_domains table: domain -> owning app or "none"
    envVars,            \* app_env_vars table: app -> its (key, value) rows
    caddyfile,          \* the Caddyfile on disk: its site blocks in order
    hostFiles,          \* per app: service unit, deploy directory, env file,
                        \* and "active" while the unit is running
    del,                \* the deleteApp invocation in flight (its locals)
    appCfg,             \* apps table, the other columns of each row
    services,           \* per app: the start command of its unit file, 0 = none
    liveConfig,         \* the config the proxy last loaded, and who loaded it
    cad,                \* the caddy:* / domain request in flight (its locals)
    envLast,            \* history: app -> key -> value last set, "" = none
    procs,              \* journalctl subprocesses and interval timers started
    streamMaps,         \* socket.data.systemctlStreams / systemStreams
    cleanups,           \* socket 'disconnect' listeners of the stream handlers
    execStarts,         \* per app: the ExecStart line createService built
    detected,           \* per app: the runtime getStatus last reported
    tasks,              \* TaskScheduler.tasks: id -> its timeout, 0 = absent
    timeouts            \* the timers TaskScheduler created with setTimeout

vars == <<queue, apps, tmp, deployments, isProcessing, passes, nudges,
          periodic, runs, io, activeStreams, conn, deploymentStreams,
          handlers, emitted, response, domains, envVars, caddyfile,
          hostFiles, del, appCfg, services, liveConfig, cad, envLast,
          procs, streamMaps, cleanups, execStarts, detected, tasks,
          timeouts>>

dbVars == <<queue, apps, tmp, deployments>>
workerVars == <<isProcessing, passes, nudges, periodic, runs>>
socketVars == <<conn, deploymentStreams, handlers>>
\* What a deployment pipeline writes outside the queue, and the rest of the
\* host's state.
pipeVars == <<envVars, envLast, services, appCfg, caddyfile, liveConfig,
              hostFiles>>
resVars == <<procs, streamMaps, cleanups>>
toolVars == <<execStarts, detected, tasks, timeouts>>
restVars == <<domains, del, cad, resVars, toolVars>>
hostVars == <<pipeVars, restVars>>

Terminal == {"completed", "failed"}

\* ------------------------------------------------------------ db helpers
Range(s) == {s[i] : i \in DOMAIN s}

RemoveAt(s, i) == [j \in 1..(Len(s) - 1) |-> IF j < i THEN s[j] ELSE s[j + 1]]

\* INSERT INTO deployment_queue (app_name, type, options): status defaults
\* to 'queued', logs to '', created_at to CURRENT_TIMESTAMP, error_message to
\* NULL. logs is kept as the sequence of the messages appended. opts is the
\* options column: startCommand and buildCommand (as the number of the entry
\* whose request gave the text; build -1: the key is absent, 0: null) and
\* envVars. left is a history field: the status a row had when the process
\* started ("none" for a row inserted since).
createQueueItem(qu, appName, type, options, ts) ==
    Append(qu, [app |-> appName, type |-> type, status |-> "queued",
                created |-> ts, err |-> "none", logs |-> <<>>,
                opts |-> options, left |-> "none"])

\* Variant: the new text replaces the column (as updateQueueLogs does).
appendQueueLogs_overwrite(qu, id, newLogs) == [qu EXCEPT ![id].logs = <<newLogs>>]

\* UPDATE deployment_queue SET logs = (current logs) + newLogs WHERE id = ?
appendQueueLogs(qu, id, newLogs) == [qu EXCEPT ![id].logs = Append(@, newLogs)]

\* INSERT INTO deployments (app_id): status defaults to 'pending'. queueId
\* (the run the record belongs to) and updates (the number of UPDATEs) are
\* history fields.
createDeployment(ds, q) ==
    Append(ds, [queueId |-> q, status |-> "pending", updates |-> 0])

\* Variant: a failed item goes back to queued.
updateQueueStatus_retry(qu, id, status, errorMessage) ==
    IF status = "failed"
    THEN [qu EXCEPT ![id].status = "queued", ![id].err = errorMessage]
    ELSE [qu EXCEPT ![id].status = status]

\* UPDATE deployment_queue SET status = ? [, error_message = ?] WHERE id = ?
\* (error_message only for a terminal status with a non-empty message).
updateQueueStatus(qu, id, status, errorMessage) ==
    IF status \in Terminal /\ errorMessage # "none"
    THEN [qu EXCEPT ![id].status = status, ![id].err = errorMessage]
    ELSE [qu EXCEPT ![id].status = status]

Orderings(S, qu) ==
    {s \in [1..Cardinality(S) -> S] :
        /\ \A i, j \in DOMAIN s : i # j => s[i] # s[j]
        /\ \A i, j \in DOMAIN s : i < j => qu[s[i]].created <= qu[s[j]].created}

\* Variant: rows left building are selected again.
getQueuedItems_withBuilding(qu) ==
    Orderings({i \in DOMAIN qu : qu[i].status \in {"queued", "building"}}, qu)

\* Variant: failed rows are selected again.
getQueuedItems_withFailed(qu) ==
    Orderings({i \in DOMAIN qu : qu[i].status \in {"queued", "failed"}}, qu)

\* SELECT * FROM deployment_queue WHERE status = 'queued' ORDER BY created_at
\* ASC: every result the statement allows; rows with equal created_at come in
\* an order SQLite leaves undefined.
getQueuedItems(qu) ==
    Orderings({i \in DOMAIN qu : qu[i].status = "queued"}, qu)


\* ------------------------------------- apps, domains, env vars, proxy config
DelNames == {"api", "qde", "web"}          \* application names
DomainNames == {"x.com", "www.x.com", "*.x.com"}
EnvKeys == {"KEY", "PORT"}

\* hash = ((hash << 5) - hash) + char; hash = hash & hash, over the name's
\* characters. Names of up to four characters stay below 2^31, where the
\* conversion to a 32-bit integer changes nothing.
RECURSIVE NameHash(_, _)
NameHash(codes, hash) ==
    IF codes = <<>> THEN hash
    ELSE NameHash(Tail(codes), (hash * 32 - hash) + Head(codes))

\* 4000 + (Math.abs(hash) % 5000); charCodes: the UTF-16 code units of a name.
getAppPort(appName) ==
    LET charCodes == [a |-> <<97>>, api |-> <<97, 112, 105>>,
                      qde |-> <<113, 100, 101>>, web |-> <<119, 101, 98>>]
        hash == NameHash(charCodes[appName], 0)
    IN  4000 + ((IF hash < 0 THEN -hash ELSE hash) % 5000)

\* SELECT * FROM apps ORDER BY name (binary collation)
getAllApps(as) ==
    SelectSeq(<<"a", "api", "qde", "web">>,
              LAMBDA n : n \in DOMAIN as /\ as[n] # "none")

\* SELECT * FROM app_domains WHERE app_id = ? ORDER BY is_primary DESC, domain
\* (addAppDomain's callers leave is_primary at its default).
getAppDomains(doms, name) ==
    SelectSeq(<<"*.x.com", "www.x.com", "x.com">>,
              LAMBDA d : d \in DOMAIN doms /\ doms[d] = name)

\* Variant: a domain gets its reverse_proxy block only.
DomainBlocks_noRedirect(name, domain) ==
    <<[kind |-> "proxy", site |-> domain, port |-> getAppPort(name),
       app |-> name, to |-> ""]>>

\* The two site blocks appended for one domain: reverse_proxy to
\* localhost:<getAppPort(app.name)>, then the redirect from its www / non-www
\* twin (port 0: the block proxies to no app), which is
\* domain.startsWith('www.') ? domain.replace('www.', '') : 'www.' + domain
\* (replace removes the first 'www.', which is the prefix).
DomainBlocks(name, domain) ==
    <<[kind |-> "proxy", site |-> domain, port |-> getAppPort(name),
       app |-> name, to |-> ""],
      [kind |-> "redirect",
       site |-> IF Len(domain) >= 4 /\ SubSeq(domain, 1, 4) = "www."
                THEN SubSeq(domain, 5, Len(domain))
                ELSE "www." \o domain,
       port |-> 0, app |-> name, to |-> domain]>>

RECURSIVE AppBlocks(_, _)
AppBlocks(name, ds) ==
    IF ds = <<>> THEN <<>>
    ELSE DomainBlocks(name, Head(ds)) \o AppBlocks(name, Tail(ds))

RECURSIVE AllBlocks(_, _)
AllBlocks(names, doms) ==
    IF names = <<>> THEN <<>>
    ELSE AppBlocks(Head(names), getAppDomains(doms, Head(names)))
         \o AllBlocks(Tail(names), doms)

\* generateCaddyfile: the dashboard block, then for every apps row and each of
\* its app_domains rows the domain's blocks, in the order of the loops.
generateCaddyfile(as, doms) ==
    <<[kind |-> "dashboard", site |-> ":8008", port |-> 8008, app |-> "",
       to |-> ""]>>
    \o AllBlocks(getAllApps(as), doms)

\* An apps row that does not exist, and the columns of a row: the port
\* allocated to the app, its start_command and build_command (0 = NULL; the
\* number of the queue entry or request that gave the text), status and
\* deploy_path. created and updated are history fields: the queue entry
\* whose run inserted the row, and the one whose run last updated status and
\* deploy_path (0: none).
NoApp == [port |-> 0, start |-> 0, build |-> 0, status |-> "none",
          deployPath |-> "none", created |-> 0, updated |-> 0]

\* DELETE FROM apps WHERE id = ? with foreign keys on: the app_domains and
\* app_env_vars rows of the app go with it (ON DELETE CASCADE).
dbDeleteApp(as, doms, envs, cfgs, name) ==
    [apps |-> [as EXCEPT ![name] = "none"],
     appCfg |-> [cfgs EXCEPT ![name] = NoApp],
     domains |-> [d \in DOMAIN doms |-> IF doms[d] = name THEN "none" ELSE doms[d]],
     envVars |-> [envs EXCEPT ![name] = {}]]

\* path.join(appsDirectory, name), `${appsDirectory}/${name}`
DeployPath(name) == "/var/www/apps/" \o name

\* Number.prototype.toString for the ports in use.
PortText(p) ==
    CASE p = 3000 -> "3000" [] p = 3001 -> "3001" [] p = 3002 -> "3002"
      [] p = 3003 -> "3003" [] OTHER -> "0"

\* dbHelpers.generateUniquePort(): a port that no apps row holds (the lowest
\* free one of the range).
generateUniquePort(cfgs) ==
    LET free == {p \in 3000..3003 : \A a \in DOMAIN cfgs : cfgs[a].port # p}
    IN  CHOOSE p \in free : \A x \in free : p <= x

EnvRow(key, value) == [key |-> key, value |-> value]

\* Variant: a plain INSERT into a table without the UNIQUE(app_id, key)
\* constraint.
setAppEnvVar_insert(envs, app, key, value) ==
    [envs EXCEPT ![app] = @ \cup {EnvRow(key, value)}]

\* INSERT OR REPLACE INTO app_env_vars (app_id, key, value): with
\* UNIQUE(app_id, key) the row of the key, if any, is replaced.
setAppEnvVar(envs, app, key, value) ==
    [envs EXCEPT ![app] = {r \in @ : r.key # key} \cup {EnvRow(key, value)}]

\* SELECT * FROM app_env_vars WHERE app_id = ? ORDER BY key
getAppEnvVars(envs, app) == envs[app]

\* dbHelpers.deleteAppEnvVar(appId, key): the row of the key is deleted.
deleteAppEnvVar(envs, app, key) ==
    [envs EXCEPT ![app] = {r \in @ : r.key # key}]

\* The part of the host a pipeline or an app request writes, as one record.
Host ==
    [envVars |-> envVars, envLast |-> envLast, services |-> services,
     appCfg |-> appCfg, caddyfile |-> caddyfile, liveConfig |-> liveConfig,
     hostFiles |-> hostFiles]

SetHost(h) ==
    /\ envVars' = h.envVars
    /\ envLast' = h.envLast
    /\ services' = h.services
    /\ appCfg' = h.appCfg
    /\ caddyfile' = h.caddyfile
    /\ liveConfig' = h.liveConfig
    /\ hostFiles' = h.hostFiles

\* for (const [key, value] of Object.entries(vars)) setAppEnvVar(id, key,
\* value): an object has one entry per key, so the order does not matter.
\* envLast records each value set.
RECURSIVE SetEnvVars(_, _, _)
SetEnvVars(h, app, rows) ==
    IF rows = {} THEN h
    ELSE LET r == CHOOSE x \in rows : TRUE IN
         SetEnvVars([h EXCEPT !.envVars = setAppEnvVar(@, app, r.key, r.value),
                              !.envLast[app][r.key] = r.value],
                    app, rows \ {r})

\* The config the proxy runs: `by` names the operation that reloaded it,
\* `checked` whether that operation had validated the file before, `run`
\* the queue entry when a pipeline reloaded it (0 otherwise).
Loaded(config, by, checked, run) ==
    [config |-> config, by |-> by, checked |-> checked, run |-> run]


\* ------------------------------------------------------- requests, events
QIds == 1..(IF MaxEntries > MaxStreamId THEN MaxEntries ELSE MaxStreamId)

\* "" stands for a missing (falsy) field of the request payload.
\* The requests tried: complete ones and ones with a single field missing.
GitRequests ==
    {r \in [appName : AppNames \cup {""}, repository : {"", "repo"},
            startCommand : {"", "start"}] :
        Cardinality({f \in {"appName", "repository", "startCommand"} : r[f] = ""}) <= 1}

FileRequests ==
    {r \in [appName : AppNames \cup {""}, startCommand : {"", "start"},
            fileBuffer : BOOLEAN] :
        Cardinality({f \in {"appName", "startCommand"} : r[f] = ""}) <= 
            (IF r.fileBuffer THEN 1 ELSE 0)}

\* callback({success, data | error}); the error text (msg) is not kept.
NoResponse == [sent |-> FALSE, success |-> FALSE, queueId |-> 0]
Ok(queueId) == [sent |-> TRUE, success |-> TRUE, queueId |-> queueId]
Err(msg) == [sent |-> TRUE, success |-> FALSE, queueId |-> 0]

EndEvent(q, status) ==
    [ev |-> "deploy:log-stream-end", queueId |-> q, status |-> status]

\* io.emit(...) is a broadcast: every connected socket receives the event.
ioEmitRecipients == {o \in Observers : conn[o] = "open"}

\* A step that emits nothing and answers no request.
Quiet == emitted' = <<>> /\ response' = NoResponse

\* return this.activeStreams.get(queueId) || false
isStreamingActive(q) == q \in DOMAIN activeStreams /\ activeStreams[q]

\* logToQueue: append to the row's log, then io.emit('deploy:log-stream')
\* when a socket server is set and the entry's flag is on. Gives the table
\* and the events emitted; the payload reads the row back after the append.
logToQueue(q, qu, msg) ==
    LET qu1 == appendQueueLogs(qu, q, msg) IN
    [queue |-> qu1,
     events |-> IF io /\ isStreamingActive(q)
                THEN <<[ev |-> "deploy:log-stream", queueId |-> q,
                        status |-> qu1[q].status, logs |-> qu1[q].logs,
                        newMessage |-> msg]>>
                ELSE <<>>]

\* Successive logToQueue calls of one step.
RECURSIVE LogAll(_, _, _)
LogAll(q, qu, msgs) ==
    IF msgs = <<>> THEN [queue |-> qu, events |-> <<>>]
    ELSE LET r == logToQueue(q, qu, Head(msgs))
             rest == LogAll(q, r.queue, Tail(msgs))
         IN  [queue |-> rest.queue, events |-> r.events \o rest.events]

\* emitDeploymentComplete: io.emit('deploy:log-stream-end') and stopStreaming.
emitDeploymentComplete(q, status) ==
    IF io /\ isStreamingActive(q) THEN <<EndEvent(q, status)>> ELSE <<>>

StreamsAfterComplete(q) ==
    IF io /\ isStreamingActive(q) THEN [activeStreams EXCEPT ![q] = FALSE]
    ELSE activeStreams

\* ----------------------------------------------------------- worker loop
PipelineSteps == <<"fetch", "install", "build", "service", "proxy">>

StepIndex(pc) == CHOOSE k \in DOMAIN PipelineSteps : PipelineSteps[k] = pc

IsStep(pc) == \E k \in DOMAIN PipelineSteps : PipelineSteps[k] = pc

\* The steps that run a shell command (install, build).
Commands == {"install", "build"}

\* What a command prints.
OutputMsg == [install |-> "install output", build |-> "build output"]

\* A failing step: the error's message, the line the git pipeline's catch
\* logs, and the message of the DeploymentResult.
StepError ==
    [fetch   |-> [message |-> "fetch failed", log |-> "Error: fetch failed",
                  result |-> "Deployment failed: fetch failed"],
     install |-> [message |-> "install failed", log |-> "Error: install failed",
                  result |-> "Deployment failed: install failed"],
     build   |-> [message |-> "build failed", log |-> "Error: build failed",
                  result |-> "Deployment failed: build failed"],
     service |-> [message |-> "service failed", log |-> "Error: service failed",
                  result |-> "Deployment failed: service failed"],
     proxy   |-> [message |-> "proxy failed", log |-> "Error: proxy failed",
                  result |-> "Deployment failed: proxy failed"]]

\* The messages a successful step passes to logToQueue. The git pipeline
\* logs every step (for a command: its start line and its output, whichever
\* way it is executed). The file pipeline has no logToQueue call of its own:
\* only executeCommandWithStreaming, used when streaming is active as the
\* command starts, logs the output.
StepMessages(type, pc, streaming) ==
    IF type = "git"
    THEN IF pc \in Commands THEN <<pc, OutputMsg[pc]>> ELSE <<pc>>
    ELSE IF pc \in Commands /\ streaming THEN <<OutputMsg[pc]>> ELSE <<>>

\* The messages of a failing step. A failing command's output reaches the
\* log only through executeCommandWithStreaming; execAsync rejects and the
\* output is dropped. The git pipeline then logs the error in the step's
\* catch and again in the pipeline's catch.
FailMessages(type, pc, streaming) ==
    LET out == IF pc \in Commands /\ streaming THEN <<OutputMsg[pc]>> ELSE <<>>
    IN  IF type = "git"
        THEN (IF pc \in Commands
              THEN <<pc>> \o out \o <<StepError[pc].message>> ELSE <<>>)
             \o <<StepError[pc].log>>
        ELSE out

\* envManager.updateEnvFile inside its own try/catch, after the env vars
\* are upserted: it succeeds, or it throws and the catch turns the error
\* into a warning and the pipeline goes on. The git pipeline passes the line
\* to logToQueue; the file pipeline only appends it to its local log.
updateEnvFile(type, pc) ==
    IF pc = "service" /\ type = "git"
    THEN {<<"Environment file updated">>,
          <<"Warning: Failed to update environment file">>}
    ELSE {<<>>}

\* Variant: a pass ends without setting the timer.
Reschedule_none(per) == per

\* setTimeout(() => this.processQueue(), 5000) at the end of a pass.
Reschedule(per) == per + 1

\* processQueue's for-loop, from the loop head to the next suspension point:
\* either the batch is exhausted (isProcessing = false, setTimeout 5000) or the
\* next item is marked 'building' and its pipeline is entered.
\* ps: the passes, i: this pass, qu/proc/per/rn: queue, isProcessing, periodic
\* timers and run counters as they stand at the loop head.
Advance(ps, i, qu, proc, per, rn) ==
    IF ps[i].batch = <<>>
    THEN [queue |-> qu, passes |-> RemoveAt(ps, i), isProcessing |-> FALSE,
          periodic |-> Reschedule(per), runs |-> rn]
    ELSE LET q == Head(ps[i].batch) IN
         [queue |-> updateQueueStatus(qu, q, "building", "none"),
          passes |-> [ps EXCEPT ![i] = [snap |-> ps[i].snap,
                                        batch |-> Tail(ps[i].batch),
                                        cur |-> q,
                                        pc |-> IF qu[q].type = "git"
                                               THEN "resolve" ELSE "read",
                                        res |-> "none", bad |-> FALSE,
                                        dep |-> 0]],
          isProcessing |-> proc, periodic |-> per,
          runs |-> [rn EXCEPT ![q] = @ + 1]]

\* Variant: no re-entrancy guard.
ProcessQueueGuard_none(proc) == TRUE

\* if (this.isProcessing) return;
ProcessQueueGuard(proc) == ~proc

\* processQueue() up to its first suspension point, as a set of outcomes (one
\* per ordering getQueuedItems may return).
processQueue(ps, qu, proc, per, rn) ==
    IF ~ProcessQueueGuard(proc)
    THEN {[queue |-> qu, passes |-> ps, isProcessing |-> proc,
           periodic |-> per, runs |-> rn]}
    ELSE {Advance(Append(ps, [snap |-> order, batch |-> order, cur |-> 0,
                               pc |-> "loop", res |-> "none", bad |-> FALSE,
                               dep |-> 0]),
                   Len(ps) + 1, qu, TRUE, per, rn) :
            order \in getQueuedItems(qu)}

SetWorker(r) ==
    /\ queue' = r.queue
    /\ passes' = r.passes
    /\ isProcessing' = r.isProcessing
    /\ periodic' = r.periodic
    /\ runs' = r.runs


\* The inner catch of processQueue: the item is marked failed and the
\* for-loop goes on with the rest of the snapshot.
\* Variant: a throw ends the whole batch.
BatchAfterThrow_abort(batch) == <<>>

BatchAfterThrow(batch) == batch

\* An error thrown out of the item's try block (lines 363-367).
Throw(i, msg) ==
    LET ps == [passes EXCEPT ![i].batch = BatchAfterThrow(@)] IN
    /\ SetWorker(Advance(ps, i, updateQueueStatus(queue, passes[i].cur, "failed", msg),
                         isProcessing, periodic, runs))
    /\ Quiet
    /\ UNCHANGED <<apps, tmp, deployments, nudges, io, activeStreams,
                   socketVars, hostVars>>

\* The pipeline returned a DeploymentResult: 'completed' or 'failed' with
\* result.message (lines 356-361), then the loop goes on.
\* res: "ok" or the step that failed; qu0: the table as the pipeline left it.
Settle(i, res, qu0, tmp1, streams1, events) ==
    LET q == passes[i].cur
        qu1 == IF res = "ok"
               THEN updateQueueStatus(qu0, q, "completed", "none")
               ELSE updateQueueStatus(qu0, q, "failed", StepError[res].result)
    IN  /\ SetWorker(Advance(passes, i, qu1, isProcessing, periodic, runs))
        /\ tmp' = tmp1
        /\ activeStreams' = streams1
        /\ emitted' = events
        /\ response' = NoResponse
        /\ UNCHANGED <<apps, nudges, io, socketVars, restVars>>

\* await fs.readFile(tempFilePath) for a file item.
ReadTemp(i) ==
    /\ passes[i].pc = "read"
    /\ LET q == passes[i].cur IN
       \/ /\ tmp[q] = "present"
          /\ passes' = [passes EXCEPT ![i].pc = "resolve"]
          /\ Quiet
          /\ UNCHANGED <<dbVars, isProcessing, nudges, periodic, runs, io,
                         activeStreams, socketVars, hostVars>>
       \/ /\ tmp[q] = "writing"           \* the write is still in flight
          /\ passes' = [passes EXCEPT ![i].pc = "resolve", ![i].bad = TRUE]
          /\ Quiet
          /\ UNCHANGED <<dbVars, isProcessing, nudges, periodic, runs, io,
                         activeStreams, socketVars, hostVars>>
       \/ /\ tmp[q] # "present"
          /\ Throw(i, "Failed to read temporary file")

\* Variant: an existing row is given a new port as well.
getOrCreateAppRow_newPort(cfgs, as, name, o, q) ==
    IF as[name] = "none"
    THEN [cfgs EXCEPT ![name] =
            [port |-> generateUniquePort(cfgs), start |-> o.start,
             build |-> IF o.build = -1 THEN 0 ELSE o.build,
             status |-> "stopped", deployPath |-> DeployPath(name),
             created |-> q, updated |-> 0]]
    ELSE [cfgs EXCEPT ![name].start = o.start,
                      ![name].build = IF o.build # -1 THEN o.build ELSE @,
                      ![name].port = generateUniquePort(cfgs)]

\* getOrCreateApp, the columns other than repository_url: a new row gets
\* port || generateUniquePort() (no caller passes a port), the commands of
\* the options and the defaults; an existing row gets start_command, and
\* build_command when the options have the key. port is not among the updates.
getOrCreateAppRow(cfgs, as, name, o, q) ==
    IF as[name] = "none"
    THEN [cfgs EXCEPT ![name] =
            [port |-> generateUniquePort(cfgs), start |-> o.start,
             build |-> IF o.build = -1 THEN 0 ELSE o.build,
             status |-> "stopped", deployPath |-> DeployPath(name),
             created |-> q, updated |-> 0]]
    ELSE [cfgs EXCEPT ![name].start = o.start,
                      ![name].build = IF o.build # -1 THEN o.build ELSE @]

HasDomain(doms, name) == \E d \in DOMAIN doms : doms[d] = name

\* Variant: the status is written before the service is created.
ServiceStep_statusFirst(h, name, o, outcome, q) ==
    LET h1 == SetEnvVars(h, name, o.env)
        h2 == [h1 EXCEPT !.appCfg[name].status = "running",
                         !.appCfg[name].deployPath = DeployPath(name),
                         !.appCfg[name].updated = q]
    IN  IF outcome = "none" THEN h2
        ELSE [h2 EXCEPT !.services[name] = o.start,
                        !.hostFiles[name] =
                            @ \cup (IF outcome = "created" THEN {"service"}
                                    ELSE {"service", "active"})]

\* From the end of the build to the status update: the options' env vars
\* are upserted, createService writes the unit with the options'
\* startCommand, start and enable run, and then updateApp sets status
\* 'running' and deploy_path. outcome: "ok", or what a throw leaves behind:
\* "none" (createService failed), "created" (start failed) or "started"
\* (enable failed). When the apps row is gone (deleted since app resolution)
\* getAppByName returns undefined and reading app.id throws before anything
\* is written.
ServiceStep(h, name, o, outcome, q) ==
    IF h.appCfg[name] = NoApp THEN h ELSE
    LET h1 == SetEnvVars(h, name, o.env)
        h2 == IF outcome = "none" THEN h1
              ELSE [h1 EXCEPT !.services[name] = o.start,
                              !.hostFiles[name] =
                                  @ \cup (IF outcome = "created" THEN {"service"}
                                          ELSE {"service", "active"})]
    IN  IF outcome = "ok"
        THEN [h2 EXCEPT !.appCfg[name].status = "running",
                        !.appCfg[name].deployPath = DeployPath(name),
                        !.appCfg[name].updated = q]
        ELSE h2

\* if (domains.length > 0) { await writeCaddyfile(); await reloadCaddy() }
\* outcome: "ok", "none" (the write failed) or "written" (the reload failed).
ProxyStep(h, as, doms, name, outcome, q) ==
    IF ~HasDomain(doms, name) \/ outcome = "none" THEN h
    ELSE LET config == generateCaddyfile(as, doms) IN
         IF outcome = "written" THEN [h EXCEPT !.caddyfile = config]
         ELSE [h EXCEPT !.caddyfile = config,
                        !.liveConfig = Loaded(config, "pipeline", FALSE, q)]

\* From the pipeline's start to the clone or extraction. The file pipeline
\* first stops the app's service (an error, as of a missing unit, is
\* swallowed). The old directory is removed; then git clones into a new one
\* (a failed clone leaves none), and the file pipeline creates the directory
\* and writes and extracts the archive into it (a failure leaves the
\* directory behind).
FetchStep(h, name, type, outcome) ==
    LET files == IF type = "file" THEN h.hostFiles[name] \ {"active"}
                 ELSE h.hostFiles[name]
    IN  [h EXCEPT !.hostFiles[name] =
            IF outcome = "ok" \/ type = "file" THEN files \cup {"dir"}
            ELSE files \ {"dir"}]

\* The host after pass i's current step ended with the outcome.
StepHost(i, outcome) ==
    LET q == passes[i].cur
        name == queue[q].app
    IN  IF passes[i].pc = "fetch"
        THEN FetchStep(Host, name, queue[q].type, outcome)
        ELSE IF passes[i].pc = "service"
        THEN ServiceStep(Host, name, queue[q].opts, outcome, q)
        ELSE IF passes[i].pc = "proxy"
        THEN ProxyStep(Host, apps, domains, name, outcome, q)
        ELSE Host

\* getOrCreateApp + createDeployment, before the pipeline's own try block:
\* the apps row is created with the request's repository (null for a file
\* deployment) or, when it exists, updated (repository_url only if one is
\* given). Either database call may throw; Resolve takes both outcomes.
getOrCreateApp(as, name, type) ==
    IF type = "git" THEN [as EXCEPT ![name] = "repo"]
    ELSE IF as[name] = "none" THEN [as EXCEPT ![name] = "norepo"]
    ELSE as

\* On success the deployment record is created and the git pipeline logs its
\* first line.
Resolve(i) ==
    /\ passes[i].pc = "resolve"
    /\ LET q == passes[i].cur
           r == LogAll(q, queue, IF queue[q].type = "git" THEN <<"start">>
                                 ELSE <<>>)
       IN
       \/ /\ apps' = getOrCreateApp(apps, queue[q].app, queue[q].type)
          /\ SetHost([Host EXCEPT !.appCfg =
                         getOrCreateAppRow(@, apps, queue[q].app, queue[q].opts,
                                           q)])
          /\ deployments' = createDeployment(deployments, q)
          /\ passes' = [passes EXCEPT ![i].pc = "fetch",
                                      ![i].dep = Len(deployments) + 1]
          /\ queue' = r.queue
          /\ emitted' = r.events
          /\ response' = NoResponse
          /\ UNCHANGED <<tmp, isProcessing, nudges,
                         periodic, runs, io, activeStreams, socketVars,
                         restVars>>
       \/ \* a throw here is not caught by the pipeline; for a file item the
          \* caller rewraps it as a temporary-file error
          Throw(i, IF queue[q].type = "git" THEN "resolve error"
                   ELSE "Failed to read temporary file")

\* The pipeline's return: the last messages are logged, the deployment
\* record is updated, stream-end is emitted; then for git the status update
\* in the same turn, for file an awaited unlink of the temporary payload
\* first. res: "ok" or the step that failed.
Finish(i, res, msgs, h) ==
    LET q == passes[i].cur
        status == IF res = "ok" THEN "completed" ELSE "failed"
        r == LogAll(q, queue, msgs)
        events == r.events \o emitDeploymentComplete(q, status)
    IN  /\ SetHost(h)
        /\ deployments' = [deployments EXCEPT
               ![passes[i].dep].status = IF res = "ok" THEN "success"
                                         ELSE "failed",
               ![passes[i].dep].updates = @ + 1]
        /\ IF queue[q].type = "git"
           THEN Settle(i, res, r.queue, tmp, StreamsAfterComplete(q), events)
           ELSE /\ passes' = [passes EXCEPT ![i].pc = "unlink", ![i].res = res]
                /\ queue' = r.queue
                /\ activeStreams' = StreamsAfterComplete(q)
                /\ emitted' = events
                /\ response' = NoResponse
                /\ UNCHANGED <<apps, tmp, isProcessing, nudges, periodic, runs,
                               io, socketVars, restVars>>

\* One pipeline step inside the try block runs to its end, successfully.
StepOk(i) ==
    /\ IsStep(passes[i].pc)
    /\ ~(passes[i].pc = "fetch" /\ passes[i].bad)
    /\ passes[i].pc = "service" => apps[queue[passes[i].cur].app] # "none"
    /\ \E env \in updateEnvFile(queue[passes[i].cur].type, passes[i].pc) :
       LET q == passes[i].cur
           msgs == env \o StepMessages(queue[q].type, passes[i].pc,
                                       isStreamingActive(q))
           r == LogAll(q, queue, msgs)
       IN  IF StepIndex(passes[i].pc) < Len(PipelineSteps)
           THEN /\ passes' = [passes EXCEPT ![i].pc =
                                  PipelineSteps[StepIndex(passes[i].pc) + 1]]
                /\ queue' = r.queue
                /\ emitted' = r.events
                /\ response' = NoResponse
                /\ SetHost(StepHost(i, "ok"))
                /\ UNCHANGED <<apps, tmp, deployments, isProcessing, nudges,
                               periodic, runs, io, activeStreams, socketVars,
                               restVars>>
           ELSE Finish(i, "ok", msgs \o (IF queue[q].type = "git"
                                         THEN <<"completed">> ELSE <<>>),
                       StepHost(i, "ok"))

\* One pipeline step throws: the pipeline's catch logs the error, closes the
\* deployment record and returns success = false. The outcome is what the
\* throwing step leaves behind.
StepFail(i) ==
    /\ IsStep(passes[i].pc)
    /\ LET q == passes[i].cur IN
       /\ passes[i].pc = "proxy" => HasDomain(domains, queue[q].app)
       /\ \E outcome \in IF passes[i].pc = "service"
                          THEN {"none", "created", "started"}
                          ELSE IF passes[i].pc = "proxy" THEN {"none", "written"}
                          ELSE {"none"} :
          \E env \in updateEnvFile(queue[q].type, passes[i].pc) :
             Finish(i, passes[i].pc,
                    env \o FailMessages(queue[q].type, passes[i].pc,
                                        isStreamingActive(q)),
                    StepHost(i, outcome))

\* await fs.unlink(tempFilePath).catch(...) returns (file items only).
Unlink(i) ==
    /\ passes[i].pc = "unlink"
    /\ Settle(i, passes[i].res, queue, [tmp EXCEPT ![passes[i].cur] = "gone"],
              activeStreams, <<>>)
    /\ UNCHANGED <<deployments, pipeVars>>

\* ------------------------------------------------------------------ timers
FireNudge ==
    /\ nudges > 0
    /\ nudges' = nudges - 1
    /\ \E r \in processQueue(passes, queue, isProcessing, periodic, runs) :
          SetWorker(r)
    /\ Quiet
    /\ UNCHANGED <<apps, tmp, deployments, io, activeStreams, socketVars,
                   hostVars>>

FirePeriodic ==
    /\ periodic > 0
    /\ \E r \in processQueue(passes, queue, isProcessing, periodic - 1, runs) :
          SetWorker(r)
    /\ Quiet
    /\ UNCHANGED <<apps, tmp, deployments, nudges, io, activeStreams,
                   socketVars, hostVars>>

\* The unawaited mkdir/writeFile of addToQueue complete: the file is there,
\* or the write lost the race against mkdir and failed with ENOENT.
\* <apps>/.temp exists once a payload write has completed (mkdir -p ran first
\* or lost the race once).
WriteDone(q) ==
    /\ tmp[q] = "writing"
    /\ \/ tmp' = [tmp EXCEPT ![q] = "present"]
       \/ /\ \A r \in Ids : tmp[r] \notin {"present", "absent", "gone"}
          /\ tmp' = [tmp EXCEPT ![q] = "absent"]
    /\ Quiet
    /\ UNCHANGED <<queue, apps, deployments, workerVars, io, activeStreams,
                   socketVars, hostVars>>


\* ------------------------------------------------------ deploy:* requests
\* addToQueue: insert the row, start the unawaited payload write, and nudge
\* the worker when it is idle.
\* CURRENT_TIMESTAMP has one-second resolution: a new row
\* carries the second of the row before it, or a later one.
addToQueue(type, appName, hasFile, options) ==
    LET id == Len(queue) + 1
        last == IF queue = <<>> THEN 0 ELSE queue[Len(queue)].created
    IN
    /\ Len(queue) < MaxEntries
    /\ \E ts \in {t \in {last, last + 1} : t <= MaxTick} :
          queue' = createQueueItem(queue, appName, type, options, ts)
    /\ tmp' = IF hasFile /\ type = "file" THEN [tmp EXCEPT ![id] = "writing"] ELSE tmp
    /\ nudges' = IF ~isProcessing THEN nudges + 1 ELSE nudges
    /\ response' = Ok(id)
    /\ emitted' = <<>>
    /\ UNCHANGED <<apps, deployments, isProcessing, passes, periodic, runs,
                   io, activeStreams, socketVars, hostVars>>

Reject(msg) ==
    /\ response' = Err(msg)
    /\ emitted' = <<>>
    /\ UNCHANGED <<dbVars, workerVars, io, activeStreams, socketVars,
                   hostVars>>

\* Variant: startCommand is not required.
ValidGit_noStartCommand(req) == req.appName # "" /\ req.repository # ""

\* if (!appName || !repository || !startCommand)
ValidGit(req) == req.appName # "" /\ req.repository # "" /\ req.startCommand # ""

\* The options a deploy request leaves in the new row: a key the payload
\* does not have is absent from the JSON (envVars defaults to {}).
RequestOptions(req) ==
    [start |-> Len(queue) + 1,
     build |-> IF "buildCommand" \in DOMAIN req THEN Len(queue) + 1 ELSE -1,
     env |-> IF "envVars" \in DOMAIN req THEN req.envVars ELSE {}]

deployFromGit(req) ==
    IF ~ValidGit(req)
    THEN Reject("appName, repository, and startCommand are required")
    ELSE addToQueue("git", req.appName, FALSE, RequestOptions(req))

deployFromFile(req) ==
    IF req.appName = "" \/ req.startCommand = "" \/ ~req.fileBuffer
    THEN Reject("appName, startCommand, and fileBuffer are required")
    ELSE addToQueue("file", req.appName, TRUE, RequestOptions(req))

\* Variant: no repository_url test.
RedeployError_noRepoCheck(as, appName) ==
    IF appName = "" THEN "appName is required"
    ELSE IF as[appName] = "none" THEN "not found"
    ELSE "none"

\* redeployApp's check and the two throws of DeploymentManager.redeploy.
RedeployError(as, appName) ==
    IF appName = "" THEN "appName is required"
    ELSE IF as[appName] = "none" THEN "not found"
    ELSE IF as[appName] = "norepo" THEN "was not deployed from Git"
    ELSE "none"

\* redeploy: the stored commands and the env vars as they are now go into
\* the new row's options.
redeployApp(appName) ==
    IF RedeployError(apps, appName) # "none"
    THEN Reject(RedeployError(apps, appName))
    ELSE addToQueue("git", appName, FALSE,
                    [start |-> appCfg[appName].start,
                     build |-> appCfg[appName].build,
                     env |-> getAppEnvVars(envVars, appName)])

\* --------------------------------------------------------------- streaming
setSocketServer ==
    /\ ~io
    /\ io' = TRUE
    /\ Quiet
    /\ UNCHANGED <<dbVars, workerVars, activeStreams, socketVars,
                   hostVars>>

Connect(o) ==
    /\ conn[o] = "new"
    /\ conn' = [conn EXCEPT ![o] = "open"]
    /\ Quiet
    /\ UNCHANGED <<dbVars, workerVars, io, activeStreams, deploymentStreams,
                   handlers, hostVars>>

\* deploy:stream-logs
streamDeploymentLogs(o, q) ==
    /\ conn[o] = "open"
    /\ IF q = 0 THEN Reject("queueId is required")
       ELSE /\ Len(handlers[o]) < MaxHandlers
            /\ activeStreams' = [activeStreams EXCEPT ![q] = TRUE]
            /\ deploymentStreams' = [deploymentStreams EXCEPT ![o] =
                   [defined |-> TRUE, keys |-> @.keys \cup {q}]]
            /\ handlers' = [handlers EXCEPT ![o] = Append(@, q)]
            /\ response' = Ok(q)
            /\ emitted' = <<>>
            /\ UNCHANGED <<dbVars, workerVars, io, conn, hostVars>>

\* deploy:stop-stream
stopStreamDeploymentLogs(o, q) ==
    /\ conn[o] = "open"
    /\ IF q = 0 THEN Reject("queueId is required")
       ELSE /\ activeStreams' = [activeStreams EXCEPT ![q] = FALSE]
            /\ IF deploymentStreams[o].defined /\ q \in deploymentStreams[o].keys
               THEN /\ deploymentStreams' = [deploymentStreams EXCEPT ![o].keys = @ \ {q}]
                    /\ response' = Ok(q)
               ELSE /\ deploymentStreams' = deploymentStreams
                    /\ response' = Err("No active log stream found")
            /\ emitted' = <<>>
            /\ UNCHANGED <<dbVars, workerVars, io, conn, handlers,
                           hostVars>>

\* Variant: the listener only deletes the key.
DisconnectHandler_noDisable(q, st) ==
    IF st.map.defined /\ q \in st.map.keys
    THEN [map |-> [st.map EXCEPT !.keys = @ \ {q}], streams |-> st.streams]
    ELSE st

\* One 'disconnect' listener registered by streamDeploymentLogs for queueId q.
DisconnectHandler(q, st) ==
    IF st.map.defined /\ q \in st.map.keys
    THEN [map |-> [st.map EXCEPT !.keys = @ \ {q}],
          streams |-> [st.streams EXCEPT ![q] = FALSE]]
    ELSE st

RECURSIVE RunHandlers(_, _)
RunHandlers(hs, st) ==
    IF hs = <<>> THEN st
    ELSE RunHandlers(Tail(hs), DisconnectHandler(Head(hs), st))

\* ------------------------------------------------- log and metric streams
\* streamMaps is socket.data.systemctlStreams (keys: application names) and
\* socket.data.systemStreams (key 'analytics'), kept as one Map, their keys
\* being different.
IdleStreams ==
    /\ procs = <<>>
    /\ streamMaps = [o \in Observers |-> [k \in {"a", "analytics"} |-> 0]]
    /\ cleanups = [o \in Observers |-> <<>>]

\* process.kill() of a journalctl subprocess, clearInterval of a timer;
\* released counts the calls.
Release(ps, p) == [ps EXCEPT ![p].released = @ + 1]

\* systemctl:start-stream (key: the appName) and system:start-stream (key
\* 'analytics'): the subprocess or timer is started, Map.set stores its
\* cleanup under the key (in place of an entry that is there), and a
\* 'disconnect' listener closing over the key is registered.
StartStream(o, key) ==
    /\ conn[o] = "open"
    /\ IF key = "" THEN Reject("appName parameter is required")
       ELSE /\ Len(procs) < MaxStarts
            /\ procs' = Append(procs, [owner |-> o,
                                       kind |-> IF key = "analytics"
                                                THEN "interval" ELSE "tail",
                                       key |-> key, released |-> 0])
            /\ streamMaps' = [streamMaps EXCEPT ![o][key] = Len(procs) + 1]
            /\ cleanups' = [cleanups EXCEPT ![o] = Append(@, key)]
            /\ response' = Ok(0)
            /\ emitted' = <<>>
            /\ UNCHANGED <<dbVars, workerVars, io, activeStreams, socketVars,
                           pipeVars, domains, del, cad, toolVars>>

streamSystemctlLogs(o, appName) == StartStream(o, appName)

streamSystemAnalytics(o) == StartStream(o, "analytics")

\* systemctl:stop-stream and system:stop-stream: the entry's cleanup runs
\* and the key is deleted; without an entry the request fails.
StopStream(o, key) ==
    /\ conn[o] = "open"
    /\ IF key = "" THEN Reject("appName parameter is required")
       ELSE IF streamMaps[o][key] = 0 THEN Reject("No active stream found")
       ELSE /\ procs' = Release(procs, streamMaps[o][key])
            /\ streamMaps' = [streamMaps EXCEPT ![o][key] = 0]
            /\ response' = Ok(0)
            /\ emitted' = <<>>
            /\ UNCHANGED <<dbVars, workerVars, io, activeStreams, socketVars,
                           pipeVars, domains, del, cad, toolVars, cleanups>>

stopStreamSystemctlLogs(o, appName) == StopStream(o, appName)

stopStreamSystemAnalytics(o) == StopStream(o, "analytics")

\* One 'disconnect' listener registered by a start-stream for the key: if
\* the Map has the key, the cleanup stored there runs and the key is deleted.
StreamCleanup(o, key, st) ==
    IF st.map[key] # 0
    THEN [procs |-> Release(st.procs, st.map[key]),
          map |-> [st.map EXCEPT ![key] = 0]]
    ELSE st

RECURSIVE RunCleanups(_, _, _)
RunCleanups(o, keys, st) ==
    IF keys = <<>> THEN st
    ELSE RunCleanups(o, Tail(keys), StreamCleanup(o, Head(keys), st))

\* The socket disconnects: its listeners run in registration order (they
\* stay registered on the dead socket). The listeners of the deployment
\* streams and those of the log and analytics streams touch different data.
Disconnect(o) ==
    /\ conn[o] = "open"
    /\ LET st == RunHandlers(handlers[o], [map |-> deploymentStreams[o],
                                           streams |-> activeStreams])
       IN  /\ deploymentStreams' = [deploymentStreams EXCEPT ![o] = st.map]
           /\ activeStreams' = st.streams
    /\ LET st == RunCleanups(o, cleanups[o], [procs |-> procs,
                                              map |-> streamMaps[o]])
       IN  /\ procs' = st.procs
           /\ streamMaps' = [streamMaps EXCEPT ![o] = st.map]
    /\ conn' = [conn EXCEPT ![o] = "closed"]
    /\ Quiet
    /\ UNCHANGED <<dbVars, workerVars, io, handlers, pipeVars, domains,
                   del, cad, toolVars, cleanups>>

\* ------------------------------------------------------ deleting an app
NoDelete ==
    [pc |-> "idle", app |-> "", failed |-> {}, former |-> {}, before |-> <<>>,
     config |-> <<>>, wrote |-> FALSE, result |-> "none", n |-> 0,
     pending |-> {}]

\* The invocation goes on to its next await.
DelGoto(pc) ==
    /\ del' = [del EXCEPT !.pc = pc]
    /\ Quiet

\* A sub-step whose failure the try/catch around it swallows.
DelSwallow(step, pc) ==
    /\ del' = [del EXCEPT !.pc = pc, !.failed = @ \cup {step}]
    /\ Quiet

\* The invocation rejects: deploy:delete's catch answers success = false.
DelThrow(step) ==
    /\ del' = [del EXCEPT !.pc = "done", !.failed = @ \cup {step},
                          !.result = "error"]
    /\ response' = Err(step)
    /\ emitted' = <<>>

\* deploy:delete and deleteApp up to its first await. failed, former, before,
\* wrote, result, n (the invocations so far) and pending (the app's queue
\* entries that are unfinished as the invocation starts and still so as it
\* returns) of the invocation record are history fields.
deleteApp(appName) ==
    /\ del.pc \in {"idle", "done"}
    /\ del.n < MaxDeletes
    /\ IF appName = "" THEN Reject("appName is required")
       ELSE IF apps[appName] = "none" THEN Reject("App not found")
       ELSE /\ del' = [NoDelete EXCEPT !.pc = "service", !.app = appName,
                           !.n = del.n + 1,
                           !.former = {d \in DomainNames : domains[d] = appName},
                           !.before = <<apps, domains, envVars>>,
                           !.pending =
                               {q \in DOMAIN queue :
                                    /\ queue[q].app = appName
                                    /\ queue[q].status \notin Terminal}]
            /\ Quiet
            /\ UNCHANGED <<dbVars, workerVars, io, activeStreams, socketVars,
                           pipeVars, domains, cad, resVars, toolVars>>

\* await systemctlManager.deleteService(appName), inside try/catch.
deleteService ==
    /\ del.pc = "service"
    /\ \/ /\ hostFiles' = [hostFiles EXCEPT ![del.app] =
                                @ \ {"service", "active"}]
          /\ services' = [services EXCEPT ![del.app] = 0]
          /\ DelGoto("rmdir")
       \/ /\ UNCHANGED <<hostFiles, services>>
          /\ DelSwallow("service", "rmdir")
    /\ UNCHANGED <<dbVars, workerVars, io, activeStreams, socketVars,
                   domains, envVars, envLast, appCfg, caddyfile, liveConfig,
                   cad, resVars, toolVars>>

\* await fs.rm(appPath, {recursive, force}), inside try/catch.
removeDirectory ==
    /\ del.pc = "rmdir"
    /\ \/ /\ hostFiles' = [hostFiles EXCEPT ![del.app] = @ \ {"dir"}]
          /\ DelGoto("envfile")
       \/ /\ hostFiles' = hostFiles
          /\ DelSwallow("rmdir", "envfile")
    /\ UNCHANGED <<dbVars, workerVars, io, activeStreams, socketVars,
                   envVars, envLast, services, appCfg, caddyfile, liveConfig,
                   domains, cad, resVars, toolVars>>

\* await envManager.deleteEnvFile(appName), inside try/catch; when it returns,
\* dbHelpers.deleteApp(app.id) runs and writeCaddyfile generates the new
\* config in the same turn, up to its first await on the file system. A
\* failing DELETE throws out of deleteApp.
deleteEnvFile ==
    /\ del.pc = "envfile"
    /\ \E envOk \in BOOLEAN :
        LET failed == IF envOk THEN del.failed ELSE del.failed \cup {"envfile"}
            db == dbDeleteApp(apps, domains, envVars, appCfg, del.app)
        IN  /\ hostFiles' = IF envOk
                            THEN [hostFiles EXCEPT ![del.app] = @ \ {"env"}]
                            ELSE hostFiles
            /\ \/ /\ apps' = db.apps
                  /\ domains' = db.domains
                  /\ envVars' = db.envVars
                  /\ appCfg' = db.appCfg
                  /\ del' = [del EXCEPT !.pc = "write", !.failed = failed,
                                 !.config = generateCaddyfile(db.apps, db.domains)]
                  /\ Quiet
               \/ /\ UNCHANGED <<apps, domains, envVars, appCfg>>
                  /\ del' = [del EXCEPT !.pc = "done", !.result = "error",
                                        !.failed = failed \cup {"db"}]
                  /\ response' = Err("db")
                  /\ emitted' = <<>>
    /\ UNCHANGED <<queue, tmp, deployments, workerVars, io, activeStreams,
                   socketVars, caddyfile, liveConfig, envLast, services, cad,
                   resVars, toolVars>>

\* writeCaddyfile from its backup read to fs.writeFile: the generated config
\* replaces the file, or an error is rethrown (not caught by deleteApp).
writeCaddyfile ==
    /\ del.pc = "write"
    /\ \/ /\ caddyfile' = del.config
          /\ del' = [del EXCEPT !.pc = "reload", !.wrote = TRUE]
          /\ Quiet
       \/ /\ caddyfile' = caddyfile
          /\ DelThrow("write")
    /\ UNCHANGED <<dbVars, workerVars, io, activeStreams, socketVars,
                   domains, envVars, envLast, services, appCfg, liveConfig,
                   hostFiles, cad, resVars, toolVars>>

\* reloadCaddy: `caddy reload`; its error is rethrown (not caught by
\* deleteApp). On success deploy:delete answers success = true.
reloadCaddy ==
    /\ del.pc = "reload"
    /\ \/ /\ del' = [del EXCEPT !.pc = "done", !.result = "ok",
                                 !.pending =
                                     {q \in @ : queue[q].status \notin Terminal}]
          /\ liveConfig' = Loaded(caddyfile, "deleteApp", FALSE, 0)
          /\ response' = Ok(0)
          /\ emitted' = <<>>
       \/ /\ liveConfig' = liveConfig
          /\ DelThrow("reload")
    /\ UNCHANGED <<dbVars, workerVars, io, activeStreams, socketVars,
                   domains, envVars, envLast, services, appCfg, caddyfile,
                   hostFiles, cad, resVars, toolVars>>

\* systemctl:stop: `systemctl stop` of the app's unit; the apps row is not
\* touched. Stopping a unit that does not exist fails.
stopSystemctlService(appName) ==
    IF appName = "" THEN Reject("appName is required")
    ELSE IF "service" \notin hostFiles[appName] THEN Reject("Unit not loaded")
    ELSE /\ hostFiles' = [hostFiles EXCEPT ![appName] = @ \ {"active"}]
         /\ response' = Ok(0)
         /\ emitted' = <<>>
         /\ UNCHANGED <<dbVars, workerVars, io, activeStreams, socketVars,
                        envVars, envLast, services, appCfg, caddyfile,
                        liveConfig, restVars>>

\* ------------------------------------------------------- app:* requests
\* What an app:* request leaves alone.
AppFrame ==
    UNCHANGED <<queue, tmp, deployments, workerVars, io, activeStreams,
                socketVars, domains, del, cad, resVars, toolVars>>

\* The text of a command given by an app:create or app:update request.
RequestText == MaxEntries + 1

\* app:create (without autoDeploy). "" and port 0 stand for a missing field.
\* The port is the request's or, without one, a generated one; the PORT
\* variable is set after the request's own env vars and replaces a PORT
\* among them. The env file's creation may fail (caught).
createApp(req) ==
    IF req.name = "" \/ req.startCommand = ""
    THEN Reject("name and startCommand are required")
    ELSE IF apps[req.name] # "none"
    THEN Reject("App already exists")
    ELSE LET appPort == IF req.port # 0 THEN req.port
                        ELSE generateUniquePort(appCfg)
             row == [port |-> appPort, start |-> RequestText, build |-> 0,
                     status |-> "stopped", deployPath |-> DeployPath(req.name),
                     created |-> 0, updated |-> 0]
             h == SetEnvVars([Host EXCEPT !.appCfg[req.name] = row], req.name,
                             {r \in req.envVars : r.key # "PORT"}
                                 \cup {EnvRow("PORT", PortText(appPort))})
         IN  /\ apps' = [apps EXCEPT ![req.name] =
                           IF "repository" \in DOMAIN req THEN "repo" ELSE "norepo"]
             /\ \/ SetHost([h EXCEPT !.hostFiles[req.name] = @ \cup {"env"}])
                \/ SetHost(h)
             /\ response' = Ok(0)
             /\ emitted' = <<>>
             /\ AppFrame

\* app:update with a port and / or a start command (0 and "": not given).
\* With a port the PORT variable is set first, then the row is updated.
updateApp(req) ==
    IF req.appName = "" THEN Reject("appName is required")
    ELSE IF apps[req.appName] = "none" THEN Reject("App not found")
    ELSE IF req.port = 0 /\ req.startCommand = ""
    THEN Reject("No valid updates provided")
    ELSE LET h1 == IF req.port # 0
                   THEN SetEnvVars(Host, req.appName,
                                   {EnvRow("PORT", PortText(req.port))})
                   ELSE Host
             h2 == IF req.port # 0
                   THEN [h1 EXCEPT !.appCfg[req.appName].port = req.port]
                   ELSE h1
             h3 == IF req.startCommand # ""
                   THEN [h2 EXCEPT !.appCfg[req.appName].start = RequestText]
                   ELSE h2
         IN  /\ SetHost(h3)
             /\ response' = Ok(0)
             /\ emitted' = <<>>
             /\ apps' = apps
             /\ AppFrame

\* An env request's checks: the fields, then the app. "null" stands for a
\* null value, which the NOT NULL column rejects.
EnvError(appName, key, value) ==
    IF appName = "" \/ key = "" THEN "appName, key, and value are required"
    ELSE IF apps[appName] = "none" THEN "App not found"
    ELSE IF value = "null" THEN "NOT NULL constraint failed"
    ELSE "none"

EnvDone(h) ==
    /\ SetHost(h)
    /\ response' = Ok(0)
    /\ emitted' = <<>>
    /\ apps' = apps
    /\ AppFrame

\* app:env:set and app:env:update (the same steps).
appEnvSet(appName, key, value) ==
    IF EnvError(appName, key, value) # "none"
    THEN Reject(EnvError(appName, key, value))
    ELSE EnvDone(SetEnvVars(Host, appName, {EnvRow(key, value)}))

\* app:env:add: refused when the key has a row.
appEnvAdd(appName, key, value) ==
    IF EnvError(appName, key, value) # "none"
    THEN Reject(EnvError(appName, key, value))
    ELSE IF \E r \in getAppEnvVars(envVars, appName) : r.key = key
    THEN Reject("already exists")
    ELSE EnvDone(SetEnvVars(Host, appName, {EnvRow(key, value)}))

\* The loop of app:env:set-multiple over Object.entries(envVars): it stops
\* at the first null value; the entries before it stay set.
RECURSIVE SetEntries(_, _, _)
SetEntries(h, app, entries) ==
    IF entries = <<>> THEN [host |-> h, ok |-> TRUE]
    ELSE IF Head(entries).value = "null" THEN [host |-> h, ok |-> FALSE]
    ELSE SetEntries(SetEnvVars(h, app, {Head(entries)}), app, Tail(entries))

\* app:env:set-multiple; entries: the object's entries in their order.
appEnvSetMultiple(appName, entries) ==
    IF appName = "" THEN Reject("appName and envVars object are required")
    ELSE IF apps[appName] = "none" THEN Reject("App not found")
    ELSE IF entries = <<>> THEN Reject("At least one environment variable is required")
    ELSE LET r == SetEntries(Host, appName, entries) IN
         /\ SetHost(r.host)
         /\ response' = IF r.ok THEN Ok(0) ELSE Err("Invalid value")
         /\ emitted' = <<>>
         /\ apps' = apps
         /\ AppFrame

\* app:env:delete.
appEnvDelete(appName, key) ==
    IF EnvError(appName, key, "") # "none"
    THEN Reject(EnvError(appName, key, ""))
    ELSE EnvDone([Host EXCEPT !.envVars = deleteAppEnvVar(@, appName, key)])

RECURSIVE DeleteKeys(_, _, _)
DeleteKeys(envs, app, keys) ==
    IF keys = {} THEN envs
    ELSE LET k == CHOOSE x \in keys : TRUE IN
         DeleteKeys(deleteAppEnvVar(envs, app, k), app, keys \ {k})

\* app:env:delete-multiple.
appEnvDeleteMultiple(appName, keys) ==
    IF appName = "" THEN Reject("appName and keys array are required")
    ELSE IF apps[appName] = "none" THEN Reject("App not found")
    ELSE IF keys = {} THEN Reject("At least one key is required")
    ELSE EnvDone([Host EXCEPT !.envVars = DeleteKeys(@, appName, keys)])

\* --------------------------------------------------- domains and the proxy
\* One caddy:* request at a time. op: the CaddyManager operation, config:
\* the text writeCaddyfile generated, valid: validateConfig returned true in
\* this request.

CadIdle == cad.pc \in {"idle", "done"}

\* The request answers with an error (a throw reaches the handler's catch).
CadError(msg) ==
    /\ cad' = [cad EXCEPT !.pc = "done"]
    /\ response' = Err(msg)
    /\ emitted' = <<>>

\* writeCaddyfile up to its first await on the file system: the config is
\* generated from the tables as they are now.
CadStart(op, doms) ==
    /\ cad' = [pc |-> "write", op |-> op,
               config |-> generateCaddyfile(apps, doms), valid |-> FALSE]
    /\ Quiet

\* caddy:add-domain and CaddyManager.addDomain up to the first await:
\* INSERT INTO app_domains fails on a domain that is bound (UNIQUE(domain)).
addCaddyDomain(appName, domain) ==
    /\ CadIdle
    /\ IF appName = "" \/ domain = ""
       THEN CadError("appName and domain are required") /\ domains' = domains
       ELSE IF apps[appName] = "none"
       THEN CadError("App not found") /\ domains' = domains
       ELSE IF domains[domain] # "none"
       THEN CadError("UNIQUE constraint failed") /\ domains' = domains
       ELSE /\ domains' = [domains EXCEPT ![domain] = appName]
            /\ CadStart("addDomain", domains')
    /\ UNCHANGED <<dbVars, workerVars, io, activeStreams, socketVars,
                   pipeVars, del, resVars, toolVars>>

\* caddy:remove-domain and caddy:delete (the same body), with
\* CaddyManager.removeDomain up to the first await. "" stands for a missing
\* domainId; the DELETE of a row that is not there deletes nothing.
removeCaddyDomain(domain) ==
    /\ CadIdle
    /\ IF domain = ""
       THEN CadError("domainId is required") /\ domains' = domains
       ELSE /\ domains' = [domains EXCEPT ![domain] = "none"]
            /\ CadStart("removeDomain", domains')
    /\ UNCHANGED <<dbVars, workerVars, io, activeStreams, socketVars,
                   pipeVars, del, resVars, toolVars>>

\* caddy:update-config up to the first await of writeCaddyfile.
updateCaddyConfig ==
    /\ CadIdle
    /\ CadStart("updateConfig", domains)
    /\ UNCHANGED <<dbVars, workerVars, io, activeStreams, socketVars,
                   pipeVars, domains, del, resVars, toolVars>>

\* writeCaddyfile's fs.writeFile of the request in flight: the file is
\* replaced, or the error is rethrown. After the write addDomain and
\* update-config call validateConfig, removeDomain goes on to reloadCaddy.
CadWrite ==
    /\ cad.pc = "write"
    /\ \/ /\ caddyfile' = cad.config
          /\ cad' = [cad EXCEPT !.pc = IF cad.op = "removeDomain"
                                        THEN "reload" ELSE "validate"]
          /\ Quiet
       \/ /\ caddyfile' = caddyfile
          /\ CadError("write")
    /\ UNCHANGED <<dbVars, workerVars, io, activeStreams, socketVars,
                   envVars, envLast, services, appCfg, liveConfig,
                   domains, hostFiles, del, resVars, toolVars>>

\* validateConfig: `caddy validate` on the file; false ends the request with
\* an error.
validateConfig ==
    /\ cad.pc = "validate"
    /\ \/ /\ cad' = [cad EXCEPT !.pc = "reload", !.valid = TRUE]
          /\ Quiet
       \/ CadError("Generated configuration is invalid")
    /\ UNCHANGED <<dbVars, workerVars, io, activeStreams, socketVars,
                   pipeVars, domains, del, resVars, toolVars>>

\* reloadCaddy of the request in flight: `caddy reload` loads the file, or
\* its error is rethrown.
CadReload ==
    /\ cad.pc = "reload"
    /\ \/ /\ liveConfig' = Loaded(caddyfile, cad.op, cad.valid, 0)
          /\ cad' = [cad EXCEPT !.pc = "done"]
          /\ response' = Ok(0)
          /\ emitted' = <<>>
       \/ /\ liveConfig' = liveConfig
          /\ CadError("reload")
    /\ UNCHANGED <<dbVars, workerVars, io, activeStreams, socketVars,
                   envVars, envLast, services, appCfg, caddyfile,
                   domains, hostFiles, del, resVars, toolVars>>

\* ---------------------------------------------------------------------
\* SystemctlManager: the runtime of a unit
\* ---------------------------------------------------------------------

\* String.prototype.includes
includes(str, sub) ==
    \E i \in 1..(Len(str) - Len(sub) + 1) :
        SubSeq(str, i, i + Len(sub) - 1) = sub

getInterpreter(runtime) ==
    CASE runtime = "python" -> "python3"
      [] runtime = "bun" -> "bun"
      [] OTHER -> "npm"

\* ExecStart=${interpreter} ${scriptPath}
ExecStart(runtime, scriptPath) == getInterpreter(runtime) \o " " \o scriptPath

detectRuntime(execStart) ==
    IF includes(execStart, "python") THEN "python"
    ELSE IF includes(execStart, "bun") THEN "bun"
    ELSE "node"

\* createService writes the unit of appName; runtime is kept beside the line
\* as history.
createService(appName, runtime, scriptPath) ==
    /\ execStarts' = [execStarts EXCEPT ![appName] =
                          [runtime |-> runtime,
                           line |-> ExecStart(runtime, scriptPath)]]
    /\ UNCHANGED <<dbVars, workerVars, io, activeStreams, socketVars, emitted,
                   response, pipeVars, domains, del, cad, resVars, detected,
                   tasks,
                   timeouts>>

\* getStatus of an existing unit: runtime is detectRuntime of the ExecStart
\* property.
getStatus(appName) ==
    /\ execStarts[appName].line # ""
    /\ detected' = [detected EXCEPT ![appName] =
                        detectRuntime(execStarts[appName].line)]
    /\ UNCHANGED <<dbVars, workerVars, io, activeStreams, socketVars, emitted,
                   response, pipeVars, domains, del, cad, resVars, execStarts,
                   tasks,
                   timeouts>>

\* ---------------------------------------------------------------------
\* TaskScheduler
\* ---------------------------------------------------------------------

MaxTimers == 4
TaskIds == {"a", "b"}
\* What a scheduled fn does when called: returns, throws, or calls
\* schedule(id, ...) for its own id with a fn that returns.
TaskFns == {"returns", "throws", "reschedules"}

\* clearTimeout(task.timeout); this.tasks.delete(id). Clearing a timer that
\* has fired does nothing.
cancel(ts, id) ==
    IF ts.tasks[id] = 0 THEN ts
    ELSE [tasks |-> [ts.tasks EXCEPT ![id] = 0],
          timeouts |-> [ts.timeouts EXCEPT ![ts.tasks[id]].state =
                            IF @ = "pending" THEN "cleared" ELSE @]]

\* this.cancel(id); setTimeout(...); this.tasks.set(id, ...)
schedule(ts, id, fn) ==
    LET c == cancel(ts, id) IN
    [tasks |-> [c.tasks EXCEPT ![id] = Len(c.timeouts) + 1],
     timeouts |-> Append(c.timeouts,
                         [id |-> id, fn |-> fn, state |-> "pending"])]

\* getAllTasks().map(t => t.id); getTimeRemaining(id) is non-null and
\* cancel(id) returns true for exactly these ids.
getAllTasks == {id \in TaskIds : tasks[id] # 0}

Pending(id) ==
    {t \in DOMAIN timeouts :
        timeouts[t].id = id /\ timeouts[t].state = "pending"}

Schedule(id, fn) ==
    /\ Len(timeouts) < MaxTimers
    /\ LET ts == schedule([tasks |-> tasks, timeouts |-> timeouts], id, fn)
       IN  tasks' = ts.tasks /\ timeouts' = ts.timeouts
    /\ UNCHANGED <<dbVars, workerVars, io, activeStreams, socketVars, emitted,
                   response, pipeVars, domains, del, cad, resVars, execStarts,
                   detected>>

Cancel(id) ==
    /\ LET ts == cancel([tasks |-> tasks, timeouts |-> timeouts], id)
       IN  tasks' = ts.tasks /\ timeouts' = ts.timeouts
    /\ UNCHANGED <<dbVars, workerVars, io, activeStreams, socketVars, emitted,
                   response, pipeVars, domains, del, cad, resVars, execStarts,
                   detected>>

\* The timer callback: fn(); this.tasks.delete(id). An fn that throws ends
\* the process, no 'uncaughtException' listener being installed: the table
\* and every timer are gone with it.
Fire(t) ==
    /\ timeouts[t].state = "pending"
    /\ LET id == timeouts[t].id
           fired == [tasks |-> tasks,
                     timeouts |-> [timeouts EXCEPT ![t].state = "fired"]]
       IN  CASE timeouts[t].fn = "returns" ->
                  /\ tasks' = [tasks EXCEPT ![id] = 0]
                  /\ timeouts' = fired.timeouts
             [] timeouts[t].fn = "throws" ->
                  /\ tasks' = [i \in TaskIds |-> 0]
                  /\ timeouts' = [u \in DOMAIN timeouts |->
                        IF fired.timeouts[u].state = "pending"
                        THEN [fired.timeouts[u] EXCEPT !.state = "cleared"]
                        ELSE fired.timeouts[u]]
             [] OTHER ->
                  /\ Len(timeouts) < MaxTimers
                  /\ LET ts == schedule(fired, id, "returns")
                     IN  /\ tasks' = [ts.tasks EXCEPT ![id] = 0]
                         /\ timeouts' = ts.timeouts
    /\ UNCHANGED <<dbVars, workerVars, io, activeStreams, socketVars, emitted,
                   response, pipeVars, domains, del, cad, resVars, execStarts,
                   detected>>

\* ------------------------------------------------------------ specification
\* The state after `new DeploymentManager()`: the constructor's processQueue()
\* has run to its first suspension point.
Init ==
    /\ apps = [a \in AppNames |-> "none"]
    /\ deployments = <<>>
    /\ nudges = 0
    /\ io = FALSE
    /\ activeStreams = [q \in QIds |-> FALSE]
    /\ conn = [o \in Observers |-> "new"]
    /\ deploymentStreams = [o \in Observers |-> [defined |-> FALSE, keys |-> {}]]
    /\ handlers = [o \in Observers |-> <<>>]
    /\ emitted = <<>>
    /\ response = NoResponse
    /\ domains = [d \in DomainNames |-> "none"]
    /\ envVars = [a \in AppNames |-> {}]
    /\ caddyfile = generateCaddyfile(apps, domains)
    /\ hostFiles = [a \in AppNames |-> {}]
    /\ del = NoDelete
    /\ appCfg = [a \in AppNames |-> NoApp]
    /\ services = [a \in AppNames |-> 0]
    /\ liveConfig = Loaded(caddyfile, "start", TRUE, 0)
    /\ cad = [pc |-> "idle", op |-> "", config |-> <<>>, valid |-> FALSE]
    /\ envLast = [a \in AppNames |-> [k \in EnvKeys |-> ""]]
    /\ IdleStreams
    /\ execStarts = [a \in AppNames |-> [runtime |-> "", line |-> ""]]
    /\ detected = [a \in AppNames |-> ""]
    /\ tasks = [i \in TaskIds |-> 0]
    /\ timeouts = <<>>
    \* qu0: the rows a previous run of the process may have left in the table
    /\ \E qu0 \in
          {<<>>} \cup
          {<<[app |-> "a", type |-> t, status |-> s, created |-> 0, err |-> "none",
              logs |-> <<>>, opts |-> [start |-> 1, build |-> -1, env |-> {}],
              left |-> s]>> :
              t \in {"git", "file"}, s \in {"queued", "building"}} :
         /\ tmp = [q \in Ids |-> IF q \in DOMAIN qu0 /\ qu0[q].type = "file"
                                 THEN "present" ELSE "none"]
         /\ \E r \in processQueue(<<>>, qu0, FALSE, 0, [q \in Ids |-> 0]) :
              /\ queue = r.queue
              /\ passes = r.passes
              /\ isProcessing = r.isProcessing
              /\ periodic = r.periodic
              /\ runs = r.runs

WorkerStep ==
    \E i \in DOMAIN passes :
        ReadTemp(i) \/ Resolve(i) \/ StepOk(i) \/ StepFail(i) \/ Unlink(i)

\* The queue engine: requests, timers and the worker. The streaming requests
\* are left out of it: they write only activeStreams and the sockets' own
\* data, which no queue or worker variable depends on.
Next ==
    \/ \E req \in GitRequests : deployFromGit(req)
    \/ \E req \in FileRequests : deployFromFile(req)
    \/ \E a \in AppNames \cup {""} : redeployApp(a)
    \/ FireNudge
    \/ FirePeriodic
    \/ \E q \in Ids : WriteDone(q)
    \/ WorkerStep

Spec == Init /\ [][Next]_vars

\* Timers fire and awaited steps return (every pipeline step terminates).
LiveSpec ==
    /\ Spec
    /\ WF_vars(FireNudge)
    /\ WF_vars(FirePeriodic)
    /\ WF_vars(WorkerStep)

\* The streaming fan-out around one git deployment: the sockets, the socket
\* server and the pipeline that emits.
StreamInit == Init /\ queue = <<>>

StreamNext ==
    \/ queue = <<>> /\ deployFromGit([appName |-> "a", repository |-> "repo",
                                      startCommand |-> "start"])
    \/ FireNudge
    \/ FirePeriodic
    \/ \E i \in DOMAIN passes : Resolve(i) \/ StepOk(i) \/ StepFail(i)
    \/ setSocketServer
    \/ \E o \in Observers : Connect(o)
    \/ \E o \in Observers : Disconnect(o)
    \/ \E o \in Observers, q \in {0} \cup StreamIds : streamDeploymentLogs(o, q)
    \/ \E o \in Observers, q \in {0} \cup StreamIds : stopStreamDeploymentLogs(o, q)

StreamSpec == StreamInit /\ [][StreamNext]_vars

\* The durable logs of several deployments while one observer switches
\* streaming on for existing entries (it goes off when a run ends); no socket
\* server is set, so nothing is emitted.
LogNext ==
    \/ deployFromGit([appName |-> "a", repository |-> "repo",
                      startCommand |-> "start"])
    \/ deployFromFile([appName |-> "a", startCommand |-> "start",
                       fileBuffer |-> TRUE])
    \/ FireNudge
    \/ FirePeriodic
    \/ \E q \in Ids : WriteDone(q)
    \/ WorkerStep
    \/ Connect("A")
    \/ \E q \in DOMAIN queue : streamDeploymentLogs("A", q)

LogSpec == StreamInit /\ [][LogNext]_vars

\* Progress events of one deployment of either kind, with one observer.
ProgressNext ==
    \/ queue = <<>> /\ deployFromGit([appName |-> "a", repository |-> "repo",
                                      startCommand |-> "start"])
    \/ queue = <<>> /\ deployFromFile([appName |-> "a", startCommand |-> "start",
                                       fileBuffer |-> TRUE])
    \/ FireNudge
    \/ FirePeriodic
    \/ \E q \in Ids : WriteDone(q)
    \/ WorkerStep
    \/ setSocketServer
    \/ Connect("A")
    \/ streamDeploymentLogs("A", 1)
    \/ stopStreamDeploymentLogs("A", 1)

ProgressSpec == StreamInit /\ [][ProgressNext]_vars

\* Deleting applications: an apps table with domains and environment
\* variables as app:create and the domain and env requests leave it, the
\* Caddyfile as last generated from it, and no deployment queued.
DelInit ==
    /\ queue = <<>>
    /\ tmp = [q \in Ids |-> "none"]
    /\ deployments = <<>>
    /\ isProcessing = FALSE
    /\ passes = <<>>
    /\ nudges = 0
    /\ periodic = 1
    /\ runs = [q \in Ids |-> 0]
    /\ io = FALSE
    /\ activeStreams = [q \in QIds |-> FALSE]
    /\ conn = [o \in Observers |-> "new"]
    /\ deploymentStreams = [o \in Observers |-> [defined |-> FALSE, keys |-> {}]]
    /\ handlers = [o \in Observers |-> <<>>]
    /\ emitted = <<>>
    /\ response = NoResponse
    /\ apps \in [DelNames -> {"none", "repo"}]
    /\ domains \in {f \in [DomainNames -> DelNames \cup {"none"}] :
                      \A d \in DomainNames : f[d] # "none" => apps[f[d]] # "none"}
    /\ envVars \in {f \in [DelNames -> SUBSET {EnvRow("KEY", "v")}] :
                      \A a \in DelNames : apps[a] = "none" => f[a] = {}}
    /\ caddyfile = generateCaddyfile(apps, domains)
    /\ hostFiles = [a \in DelNames |-> IF apps[a] = "none" THEN {}
                                       ELSE {"service", "dir", "env", "active"}]
    /\ del = NoDelete
    /\ appCfg = [a \in DelNames |->
          IF apps[a] = "none" THEN NoApp
          ELSE [port |-> CASE a = "api" -> 3000 [] a = "qde" -> 3001
                           [] OTHER -> 3002,
                start |-> 1, build |-> 0, status |-> "running",
                deployPath |-> DeployPath(a), created |-> 0, updated |-> 0]]
    /\ services = [a \in DelNames |-> IF apps[a] = "none" THEN 0 ELSE 1]
    /\ liveConfig = Loaded(caddyfile, "start", TRUE, 0)
    /\ cad = [pc |-> "idle", op |-> "", config |-> <<>>, valid |-> FALSE]
    /\ envLast = [a \in DelNames |-> [k \in EnvKeys |->
                     IF EnvRow(k, "v") \in envVars[a] THEN "v" ELSE ""]]
    /\ IdleStreams
    /\ execStarts = [a \in AppNames |-> [runtime |-> "", line |-> ""]]
    /\ detected = [a \in AppNames |-> ""]
    /\ tasks = [i \in TaskIds |-> 0]
    /\ timeouts = <<>>

DelNext ==
    \/ \E a \in DelNames \cup {""} : deleteApp(a)
    \/ deleteService
    \/ removeDirectory
    \/ deleteEnvFile
    \/ writeCaddyfile
    \/ reloadCaddy

DelSpec == DelInit /\ [][DelNext]_vars

\* Domains and the proxy config: two applications exist, a third name does
\* not; domains are bound and unbound and the config regenerated.
CaddyInit ==
    /\ DelInit
    /\ apps = [a \in DelNames |-> IF a = "web" THEN "none" ELSE "repo"]
    /\ \A d \in DomainNames : domains[d] = "none"
    /\ \A a \in DelNames : envVars[a] = {}

CaddyNext ==
    \/ \E a \in DelNames \cup {""}, d \in DomainNames \cup {""} :
          addCaddyDomain(a, d)
    \/ \E d \in DomainNames \cup {""} : removeCaddyDomain(d)
    \/ updateCaddyConfig
    \/ CadWrite
    \/ validateConfig
    \/ CadReload

CaddySpec == CaddyInit /\ [][CaddyNext]_vars

\* A deletion of an application or a stop of its service while a deployment
\* of it is queued or running: the application exists, without domains or
\* env vars.
RaceInit ==
    /\ DelInit
    /\ apps = [a \in DelNames |-> IF a = "api" THEN "repo" ELSE "none"]
    /\ \A d \in DomainNames : domains[d] = "none"
    /\ \A a \in DelNames : envVars[a] = {}

RaceNext ==
    \/ queue = <<>> /\ deployFromGit([appName |-> "api", repository |-> "repo",
                                      startCommand |-> "start"])
    \/ queue = <<>> /\ deployFromFile([appName |-> "api",
                                       startCommand |-> "start",
                                       fileBuffer |-> TRUE])
    \/ FireNudge
    \/ FirePeriodic
    \/ \E q \in Ids : WriteDone(q)
    \/ WorkerStep
    \/ deleteApp("api")
    \/ \E a \in {"api", ""} : stopSystemctlService(a)
    \/ deleteService
    \/ removeDirectory
    \/ deleteEnvFile
    \/ writeCaddyfile
    \/ reloadCaddy

RaceSpec == RaceInit /\ [][RaceNext]_vars

\* An empty host with room for three application names.
AppInit ==
    /\ DelInit
    /\ \A a \in DelNames : apps[a] = "none"

UpdateRequests ==
    [appName : {"api", "qde"}, port : {0, 3001}, startCommand : {"", "start"}]

\* The port of one application across deployments: it is created by
\* app:create (with or without a port) or by a first deployment from git,
\* given a port by app:update, and redeployed.
PortNext ==
    \/ \E p \in {0, 3001} :
          createApp([name |-> "api", startCommand |-> "start", port |-> p,
                     repository |-> "repo", envVars |-> {}])
    \/ \E req \in UpdateRequests : updateApp(req)
    \/ queue = <<>> /\ deployFromGit([appName |-> "api", repository |-> "repo",
                                      startCommand |-> "start"])
    \/ redeployApp("api")
    \/ FireNudge
    \/ FirePeriodic
    \/ WorkerStep

PortSpec == AppInit /\ [][PortNext]_vars

\* Ports of two applications and the proxy config: applications are created
\* by app:create or by a deployment, given ports by app:update and bound to
\* domains.
AppNext ==
    \/ \E n \in {"api", "qde"}, p \in {0, 3000} :
          createApp([name |-> n, startCommand |-> "start", port |-> p,
                     repository |-> "repo", envVars |-> {}])
    \/ \E req \in UpdateRequests : req.startCommand = "" /\ updateApp(req)
    \/ addCaddyDomain("api", "x.com")
    \/ addCaddyDomain("qde", "www.x.com")
    \/ CadWrite
    \/ validateConfig
    \/ CadReload
    \/ queue = <<>> /\ deployFromGit([appName |-> "api", repository |-> "repo",
                                      startCommand |-> "start"])
    \/ FireNudge
    \/ FirePeriodic
    \/ WorkerStep

AppSpec == AppInit /\ [][AppNext]_vars

\* Environment variables of one application: app:create, the app:env:*
\* requests, and deployments and redeploys that carry env vars.
EnvNext ==
    \/ \E e \in {{}, {EnvRow("KEY", "v")}} :
          createApp([name |-> "a", startCommand |-> "start", port |-> 3000,
                     repository |-> "repo", envVars |-> e])
    \/ \E v \in {"v", "w", "null"} : appEnvSet("a", "KEY", v)
    \/ \E v \in {"v", "w"} : appEnvAdd("a", "KEY", v)
    \/ \E es \in {<<EnvRow("KEY", "w")>>,
                  <<EnvRow("KEY", "v"), EnvRow("PORT", "null")>>} :
          appEnvSetMultiple("a", es)
    \/ appEnvDelete("a", "KEY")
    \/ appEnvDeleteMultiple("a", EnvKeys)
    \/ queue = <<>> /\ deployFromGit([appName |-> "a", repository |-> "repo",
                                      startCommand |-> "start",
                                      envVars |-> {EnvRow("KEY", "v")}])
    \/ queue = <<>> /\ redeployApp("a")
    \/ FireNudge
    \/ FirePeriodic
    \/ WorkerStep

EnvSpec == StreamInit /\ [][EnvNext]_vars

\* Log and analytics streams of the sockets: started, stopped, and cleaned
\* up when the socket disconnects.

ResNext ==
    \/ \E o \in Observers : Connect(o)
    \/ \E o \in Observers : Disconnect(o)
    \/ \E o \in Observers, a \in {"a", ""} : streamSystemctlLogs(o, a)
    \/ \E o \in Observers, a \in {"a", ""} : stopStreamSystemctlLogs(o, a)
    \/ \E o \in Observers : streamSystemAnalytics(o)
    \/ \E o \in Observers : stopStreamSystemAnalytics(o)

ResSpec == StreamInit /\ [][ResNext]_vars


\* ------------------------------------------------------------------ claims

\* C1: a queue row's status moves only queued -> building -> completed or
\* queued -> building -> failed; completed and failed are never left, no row
\* returns to queued, and no row is removed.
C1_StatusLifecycle ==
    [][/\ Len(queue') >= Len(queue)
       /\ \A q \in DOMAIN queue :
            \/ queue'[q].status = queue[q].status
            \/ <<queue[q].status, queue'[q].status>> \in
                 {<<"queued", "building">>, <<"building", "completed">>,
                  <<"building", "failed">>}]_vars

\* A failed row and a completed row, with the worker idle again.
C1_Witness ==
    /\ passes = <<>>
    /\ \E q1, q2 \in DOMAIN queue :
         queue[q1].status = "failed" /\ queue[q2].status = "completed"

\* C2: at most one processQueue pass is draining, hence at most one pipeline
\* is executing, and the flag is set while it does.
C2_SinglePass ==
    /\ Len(passes) <= 1
    /\ passes # <<>> => isProcessing

\* A pipeline suspended at an await while a nudge and a reschedule timer are
\* both pending.
C2_Witness ==
    /\ Len(passes) = 1
    /\ passes[1].pc = "build"
    /\ nudges > 0
    /\ periodic > 0

\* C3: no queue entry is handed to a pipeline more than once.
C3_DispatchedOnce == \A q \in Ids : runs[q] <= 1

\* A later pass runs entry 2 after an earlier pass finished entry 1.
C3_Witness ==
    /\ Len(passes) = 1
    /\ passes[1].snap = <<2>>
    /\ runs[1] = 1
    /\ runs[2] = 1
    /\ queue[1].status \in Terminal

\* C4: with timers firing and pipeline steps returning, every queued entry
\* eventually becomes completed or failed; and at every moment a pass is in
\* progress or a wake-up timer is pending.
C4_EventuallyTerminal ==
    /\ [](passes # <<>> \/ periodic > 0 \/ nudges > 0)
    /\ \A q \in Ids :
         (q \in DOMAIN queue /\ queue[q].status = "queued")
             ~> (q \in DOMAIN queue /\ queue[q].status \in Terminal)

\* An entry submitted while a batch is draining: it is in no snapshot and got
\* no nudge.
C4_Witness ==
    /\ isProcessing
    /\ nudges = 0
    /\ \E q \in DOMAIN queue :
         /\ queue[q].status = "queued"
         /\ \A i \in DOMAIN passes : q \notin Range(passes[i].snap)

\* C5: a submit-from-git or submit-from-file request with a missing field is
\* answered success = false, adds no queue row and schedules no worker pass.
C5_InvalidSubmitRejected ==
    [][/\ \A req \in GitRequests :
            (req.appName = "" \/ req.repository = "" \/ req.startCommand = "")
              /\ deployFromGit(req)
            => /\ response'.sent /\ ~response'.success
               /\ UNCHANGED <<queue, tmp, nudges, periodic, passes>>
       /\ \A req \in FileRequests :
            (req.appName = "" \/ req.startCommand = "" \/ ~req.fileBuffer)
              /\ deployFromFile(req)
            => /\ response'.sent /\ ~response'.success
               /\ UNCHANGED <<queue, tmp, nudges, periodic, passes>>]_vars

\* A request was refused while the worker is idle, an accepted entry is
\* waiting and its nudge is pending.
C5_Witness ==
    /\ response.sent
    /\ ~response.success
    /\ ~isProcessing
    /\ nudges = 1
    /\ \E q \in DOMAIN queue : queue[q].status = "queued"

\* C6: redeploy of an unknown application or of one without a repository
\* fails and adds no row; with a repository it adds exactly one queued git row.
C6_Redeploy ==
    [][\A a \in AppNames \cup {""} :
          redeployApp(a) =>
            IF a # "" /\ apps[a] = "repo"
            THEN /\ response'.sent /\ response'.success
                 /\ Len(queue') = Len(queue) + 1
                 /\ \A q \in DOMAIN queue : queue'[q] = queue[q]
                 /\ queue'[Len(queue')].type = "git"
                 /\ queue'[Len(queue')].status = "queued"
                 /\ queue'[Len(queue')].app = a
            ELSE /\ response'.sent /\ ~response'.success
                 /\ queue' = queue]_vars

\* A refused request for an application deployed from a file (no repository).
C6_Witness ==
    /\ response.sent
    /\ ~response.success
    /\ apps["a"] = "norepo"

\* C7: an entry whose pipeline fails ends failed with an error message, and
\* the pass it belongs to still takes every entry of its snapshot to a
\* terminal state before it clears the flag and reschedules itself.
C7_FailureIsolated ==
    [][/\ \A q \in DOMAIN queue :
            queue[q].status # "failed" /\ queue'[q].status = "failed"
              => queue'[q].err # "none"
       /\ Len(passes') < Len(passes) =>
            \E i \in DOMAIN passes :
               /\ passes' = RemoveAt(passes, i)
               /\ \A q \in Range(passes[i].snap) : queue'[q].status \in Terminal
               /\ ~isProcessing'
               /\ periodic' = periodic + 1]_vars

\* The first entry of a two-entry batch failed on a throw (unreadable
\* payload) and the pass went on to the second.
C7_Witness ==
    /\ Len(passes) = 1
    /\ Len(passes[1].snap) = 2
    /\ queue[passes[1].snap[1]].status = "failed"
    /\ queue[passes[1].snap[1]].err = "Failed to read temporary file"
    /\ passes[1].cur = passes[1].snap[2]

\* C8: within a batch, an entry created earlier (smaller id) is terminal
\* before a later one leaves queued.
C8_BatchInCreationOrder ==
    \A i \in DOMAIN passes :
        \A a, b \in Range(passes[i].snap) :
            a < b /\ queue[b].status # "queued" => queue[a].status \in Terminal

\* C9: when an observer disconnects, the flag of every entry it was streaming
\* is off afterwards, its subscriptions are gone and the disconnect emits
\* nothing; every listener finds the socket's map defined (no throw); and an
\* event for q is emitted only while the flag of q is on, which requires a
\* connected observer subscribed to q -- never a disconnected one.
C9_DisconnectStopsStreaming ==
    /\ [](\A o \in Observers :
            /\ handlers[o] # <<>> => deploymentStreams[o].defined
            /\ conn[o] = "closed" => deploymentStreams[o].keys = {})
    /\ [](\A q \in StreamIds :
            isStreamingActive(q) =>
                \E o \in Observers :
                    conn[o] = "open" /\ q \in deploymentStreams[o].keys)
    /\ [][/\ \A o \in Observers :
              conn[o] = "open" /\ conn'[o] = "closed" =>
                /\ \A q \in deploymentStreams[o].keys : ~activeStreams'[q]
                /\ deploymentStreams'[o].keys = {}
                /\ emitted' = <<>>
          /\ \A k \in DOMAIN emitted' :
              isStreamingActive(emitted'[k].queueId)]_vars

\* Observer A asked twice for the stream of entry 1 and then disconnected
\* while the pipeline of entry 1 is running with the socket server set: the
\* flag is off and the step just taken emitted nothing.
C9_Witness ==
    /\ conn["A"] = "closed"
    /\ handlers["A"] = <<1, 1>>
    /\ io
    /\ ~isStreamingActive(1)
    /\ \E i \in DOMAIN passes : passes[i].cur = 1 /\ IsStep(passes[i].pc)

\* C10: subscriptions are per (observer, entry). While another connected
\* observer is subscribed to q with the flag on, a stop-stream or disconnect
\* by o leaves the flag of q on; and a stop-stream for q by an observer not
\* subscribed to q changes no streaming state.
C10_PerObserverSubscription ==
    [][\A o \in Observers, q \in StreamIds :
          /\ (/\ stopStreamDeploymentLogs(o, q) \/ Disconnect(o)
              /\ q \in deploymentStreams[o].keys
              /\ isStreamingActive(q)
              /\ \E p \in Observers \ {o} :
                    conn[p] = "open" /\ q \in deploymentStreams[p].keys)
             => isStreamingActive(q)'
          /\ (stopStreamDeploymentLogs(o, q) /\ q \notin deploymentStreams[o].keys)
             => UNCHANGED <<activeStreams, deploymentStreams>>]_vars

\* C11: an event for entry q reaches only observers that hold a subscription
\* for q at that moment: every recipient of an emitted event has q among the
\* entries it is streaming.
C11_OnlySubscribersReceive ==
    [][\A k \in DOMAIN emitted' :
          \A o \in ioEmitRecipients :
              emitted'[k].queueId \in deploymentStreams[o].keys]_vars

\* C12: when an entry with streaming enabled (socket server set) becomes
\* terminal, that step emits exactly one stream-end event with the entry's
\* final status, as its last event, streaming for the entry is off afterwards,
\* and no event for a terminal entry is emitted later.
C12_ExactlyOneStreamEnd ==
    [][\A q \in DOMAIN queue :
          /\ (/\ io
              /\ isStreamingActive(q)
              /\ queue[q].status \notin Terminal
              /\ queue'[q].status \in Terminal)
             => /\ Cardinality({k \in DOMAIN emitted' :
                       emitted'[k] = EndEvent(q, queue'[q].status)}) = 1
                /\ emitted'[Len(emitted')] = EndEvent(q, queue'[q].status)
                /\ ~isStreamingActive(q)'
          /\ queue[q].status \in Terminal
             => \A k \in DOMAIN emitted' : emitted'[k].queueId # q]_vars

\* C13: streaming only observes. Two runs of the same kind that end with the
\* same status and the same error (the same steps succeeded and failed)
\* leave the same durable log, whenever streaming was switched on or off.
\* The line that tells how the env-file regeneration went is left out of the
\* comparison: it does not show in status or error.
C13_StreamingIsObservationOnly ==
    LET steps(l) == SelectSeq(l, LAMBDA m :
                        <<m>> \notin updateEnvFile("git", "service"))
    IN  \A q1, q2 \in DOMAIN queue :
            (/\ queue[q1].type = queue[q2].type
             /\ queue[q1].status \in Terminal
             /\ queue[q1].status = queue[q2].status
             /\ queue[q1].err = queue[q2].err)
            => steps(queue[q1].logs) = steps(queue[q2].logs)

\* C14: the durable log of a file entry records its run as a git entry's
\* does: once a file entry has completed, the output of every command that
\* ran is in its log; once it has failed in a step, that step's error is in
\* its log.
C14_FileLogRecordsSteps ==
    \A q \in DOMAIN queue :
        queue[q].type = "file" =>
            /\ queue[q].status = "completed" =>
                   \A c \in Commands : OutputMsg[c] \in Range(queue[q].logs)
            /\ \A s \in Range(PipelineSteps) :
                   (queue[q].status = "failed"
                        /\ queue[q].err = StepError[s].result) =>
                       StepError[s].log \in Range(queue[q].logs)

\* C15: deleteApp on an existing application fails only if the database
\* delete fails; a failure of any other sub-step (service, directory,
\* environment file, proxy config write or reload) is swallowed.
C15_DeleteFailsOnlyOnDbError ==
    (del.pc = "done" /\ del.result = "error") => "db" \in del.failed

\* C16: once deleteApp has executed the database delete, the app's row, its
\* domains and its environment variables are gone, the rows of the other
\* applications are as they were, and the Caddyfile it then writes has no
\* block for one of its former domains or for its port.
C16_DeleteRemovesAppEverywhere ==
    (del.pc \in {"write", "reload", "done"} /\ "db" \notin del.failed) =>
        /\ apps[del.app] = "none"
        /\ \A d \in DomainNames : domains[d] # del.app
        /\ envVars[del.app] = {}
        /\ \A a \in DelNames \ {del.app} :
              apps[a] = del.before[1][a] /\ envVars[a] = del.before[3][a]
        /\ \A d \in DomainNames :
              del.before[2][d] # del.app => domains[d] = del.before[2][d]
        /\ del.wrote =>
              \A b \in Range(caddyfile) :
                  b.site \notin del.former /\ b.port # getAppPort(del.app)

\* C17: every pipeline run has exactly one deployment record, created at its
\* start and updated exactly once: when the run of a git entry has ended, its
\* one record has had one update, to success for a completed entry and to
\* failed for a failed one; no record is updated twice.
C17_OneRecordPerRun ==
    /\ \A k \in DOMAIN deployments : deployments[k].updates <= 1
    /\ \A q \in DOMAIN queue :
          (queue[q].type = "git" /\ runs[q] > 0 /\ queue[q].status \in Terminal) =>
              \E k \in DOMAIN deployments :
                  /\ deployments[k].queueId = q
                  /\ deployments[k].updates = 1
                  /\ deployments[k].status =
                        (IF queue[q].status = "completed" THEN "success"
                         ELSE "failed")
                  /\ \A j \in DOMAIN deployments :
                        deployments[j].queueId = q => j = k

IsPrefix(s, t) == Len(s) <= Len(t) /\ SubSeq(t, 1, Len(s)) = s

\* C18: an entry's durable log only grows by appending, and every progress
\* event carries the log as it stands after its own message: the event's
\* logs extend the log before the step, end with the event's newMessage, are
\* extended by the later events of the step and by the log after the step.
C18_LogAppendOnly ==
    [][/\ \A q \in DOMAIN queue : IsPrefix(queue[q].logs, queue'[q].logs)
       /\ \A k \in DOMAIN emitted' :
             emitted'[k].ev = "deploy:log-stream" =>
                LET e == emitted'[k] IN
                /\ e.logs # <<>> /\ e.logs[Len(e.logs)] = e.newMessage
                /\ IsPrefix(queue[e.queueId].logs, e.logs)
                /\ IsPrefix(e.logs, queue'[e.queueId].logs)
                /\ \A j \in 1..(k - 1) :
                      (emitted'[j].ev = "deploy:log-stream"
                            /\ emitted'[j].queueId = e.queueId) =>
                          /\ IsPrefix(emitted'[j].logs, e.logs)
                          /\ emitted'[j].logs # e.logs]_vars

\* A step has emitted two progress events for an entry whose log already
\* held earlier messages.
C18_Witness ==
    \E j, k \in DOMAIN emitted :
        /\ j < k
        /\ emitted[j].ev = "deploy:log-stream"
        /\ emitted[k].ev = "deploy:log-stream"
        /\ emitted[j].queueId = emitted[k].queueId
        /\ Len(emitted[j].logs) >= 2

\* C19: once a file entry is completed or failed, whatever the cause, its
\* temporary payload queue_<id>.zip no longer exists (nor is it still being
\* written).
C19_TempFileRemoved ==
    \A q \in DOMAIN queue :
        (queue[q].type = "file" /\ queue[q].status \in Terminal) =>
            tmp[q] \notin {"present", "writing"}

\* C20: the payload of a file entry is completely written before the worker
\* reads it: whenever the worker's readFile for an entry executes, the
\* entry's payload is present and complete.
C20_PayloadWrittenBeforeRead ==
    [][\A i \in DOMAIN passes :
          (passes[i].pc = "read" /\ passes' # passes) =>
              tmp[passes[i].cur] = "present"]_vars

\* C24: addDomain, removeDomain and update-config reload the proxy only with
\* a config that validateConfig accepted in the same operation: the config
\* the proxy runs, when one of the three loaded it, had been validated.
C24_ReloadOnlyValidated ==
    liveConfig.by \in {"addDomain", "removeDomain", "updateConfig"}
        => liveConfig.checked

\* The config a caddy:* request generated, from the moment it is generated
\* until the request ends (the tables do not change in between).
Rendering == cad.pc \in {"write", "validate", "reload"}
Rendered == IF cad.pc = "write" THEN cad.config ELSE caddyfile

BlocksOf(config, kind, site) ==
    {i \in DOMAIN config : config[i].kind = kind /\ config[i].site = site}

BoundDomains == {d \in DomainNames : domains[d] # "none"}

\* The www / bare twin of each domain, written out.
Counterpart ==
    [d \in DomainNames |->
        CASE d = "x.com" -> "www.x.com"
          [] d = "www.x.com" -> "x.com"
          [] d = "*.x.com" -> "www.*.x.com"]

\* C25: the rendered config has, for each bound domain, exactly one
\* reverse-proxy block addressed by the domain (for the app that owns it) and
\* exactly one redirect block addressed by its www / bare counterpart, and
\* the one dashboard block; nothing else, so an app without domains has no
\* block.
C25_BlocksPerDomain ==
    Rendering =>
        /\ \A d \in BoundDomains :
              /\ Cardinality(BlocksOf(Rendered, "proxy", d)) = 1
              /\ \A i \in BlocksOf(Rendered, "proxy", d) :
                    Rendered[i].app = domains[d]
              /\ Cardinality({i \in BlocksOf(Rendered, "redirect", Counterpart[d]) :
                                 Rendered[i].to = d}) = 1
        /\ Cardinality({i \in DOMAIN Rendered :
                           Rendered[i].kind = "dashboard"}) = 1
        /\ Len(Rendered) = 1 + 2 * Cardinality(BoundDomains)
        /\ \A i \in DOMAIN Rendered :
              Rendered[i].kind # "dashboard" => HasDomain(domains, Rendered[i].app)

\* Both forms of a domain are bound to one app, the other app has no domain,
\* and the config is rendered.
C25_Witness ==
    /\ Rendering
    /\ domains["x.com"] = "api"
    /\ domains["www.x.com"] = "api"
    /\ domains["*.x.com"] = "none"
    /\ ~HasDomain(domains, "qde")
    /\ Len(Rendered) = 5

\* C26: for a bound wildcard domain the rendered config has the domain's
\* reverse-proxy block and no companion redirect block.
C26_NoWildcardRedirect ==
    (Rendering /\ domains["*.x.com"] # "none") =>
        /\ Cardinality(BlocksOf(Rendered, "proxy", "*.x.com")) = 1
        /\ \A i \in DOMAIN Rendered :
              ~(Rendered[i].kind = "redirect" /\ Rendered[i].to = "*.x.com")

\* C23: an application's env vars are a map keyed by name: the listing has
\* at most one row per key, and the value of each row is the value last set
\* for the key, by an app:env request, app:create or a pipeline's upsert.
C23_EnvUpsertMap ==
    \A a \in DOMAIN envVars :
        /\ \A k \in EnvKeys :
              Cardinality({r \in getAppEnvVars(envVars, a) : r.key = k}) <= 1
        /\ \A r \in getAppEnvVars(envVars, a) : r.value = envLast[a][r.key]

\* A deployment carrying KEY=v has completed and KEY was set to w afterwards,
\* next to the PORT variable.
C23_Witness ==
    /\ getAppEnvVars(envVars, "a") = {EnvRow("KEY", "w"), EnvRow("PORT", "3000")}
    /\ \E q \in DOMAIN queue :
          /\ queue[q].status = "completed"
          /\ EnvRow("KEY", "v") \in queue[q].opts.env

\* C21: the port stored for an application changes in no step of a
\* deployment or redeploy, whether it succeeds or fails: once an application
\* has a port, only an app:update request that names a port changes it.
C21_PortStable ==
    [][\A a \in DOMAIN appCfg :
          (appCfg[a].port # 0 /\ appCfg'[a].port # appCfg[a].port) =>
              \E req \in UpdateRequests :
                  req.appName = a /\ req.port # 0 /\ updateApp(req)]_vars

\* The application was created with port 3000; one deployment of it has
\* completed and another has failed.
C21_Witness ==
    /\ appCfg["api"].port = 3000
    /\ \E q \in DOMAIN queue : queue[q].app = "api" /\ queue[q].status = "completed"
    /\ \E q \in DOMAIN queue : queue[q].app = "api" /\ queue[q].status = "failed"

\* The reverse-proxy blocks of the config on disk.
ProxyBlocks == {b \in Range(caddyfile) : b.kind = "proxy"}

\* C22: no two applications have the same port: the ports stored for the
\* applications are pairwise distinct, and so are the upstream ports the
\* proxy config uses for different applications.
C22_PortsDistinct ==
    /\ \A a, b \in DOMAIN appCfg :
          (a # b /\ appCfg[a].port # 0 /\ appCfg[b].port # 0) =>
              appCfg[a].port # appCfg[b].port
    /\ \A x, y \in ProxyBlocks : x.app # y.app => x.port # y.port

\* C27: the upstream port of every reverse-proxy block is the port stored
\* for the block's application.
C27_UpstreamIsAllocatedPort ==
    \A b \in ProxyBlocks : appCfg[b.app].port # 0 => b.port = appCfg[b.app].port

\* C28: when a socket has disconnected, every journalctl subprocess and
\* every analytics timer it started has been released, and no journalctl
\* subprocess is ever killed more than once.
C28_StreamsReleased ==
    /\ \A p \in DOMAIN procs :
          conn[procs[p].owner] = "closed" => procs[p].released >= 1
    /\ \A p \in DOMAIN procs :
          procs[p].kind = "tail" => procs[p].released <= 1

\* The queue entries of an application.
EntriesOf(app) == {q \in DOMAIN queue : queue[q].app = app}

\* C29: when an application has two or more queue entries and all of them
\* have completed, its stored start and build commands and the start command
\* of its service unit are those of the entry created last.
C29_LaterEntryWins ==
    \A app \in DOMAIN appCfg :
        (/\ Cardinality(EntriesOf(app)) >= 2
         /\ \A q \in EntriesOf(app) : queue[q].status = "completed") =>
            LET last == CHOOSE q \in EntriesOf(app) :
                            \A x \in EntriesOf(app) : x <= q
                o == queue[last].opts
            IN  /\ appCfg[app].start = o.start
                /\ appCfg[app].build = (IF o.build = -1 THEN 0 ELSE o.build)
                /\ services[app] = o.start

\* The run of entry q has got past service creation, start and enable: its
\* pass is at the proxy step or behind it, or the entry ended completed or
\* failed at the proxy step.
PastService(q) ==
    \/ queue[q].status = "completed"
    \/ queue[q].status = "failed" /\ queue[q].err = StepError["proxy"].result
    \/ \E i \in DOMAIN passes :
          /\ passes[i].cur = q
          /\ \/ passes[i].pc = "proxy"
             \/ passes[i].pc = "unlink" /\ passes[i].res \in {"ok", "proxy"}

\* The runs that wrote status and deploy path of an apps row: by creating
\* the row, or by the update after the service step.
RowWriters(a) == {appCfg[a].created, appCfg[a].updated} \ {0}

\* C30 as stated: the status is set to 'running' by a run only after its
\* service creation, start and enable succeeded, the proxy is reloaded by a
\* run only after that and only for an application with a bound domain, and
\* a run that failed at an earlier step wrote neither status nor deploy path
\* of the application.
C30_StatusAfterService ==
    /\ \A a \in DOMAIN appCfg :
          /\ appCfg[a].updated # 0 => PastService(appCfg[a].updated)
          /\ \A q \in RowWriters(a) :
                queue[q].status = "failed" => PastService(q)
    /\ liveConfig.run # 0 =>
          /\ PastService(liveConfig.run)
          /\ appCfg[queue[liveConfig.run].app].status = "running"
          /\ HasDomain(domains, queue[liveConfig.run].app)

\* C30, amended: the status is 'running', and status and deploy path are
\* updated, only by a run whose service creation, start and enable succeeded;
\* the proxy is reloaded by a run only after that update and only for an
\* application with a bound domain. A run that fails at an earlier step
\* leaves status and deploy path as app resolution left them: unchanged for
\* an existing row, 'stopped' and the app's directory for a row the run
\* created.
C30_StatusAfterService_amended ==
    /\ [](\A a \in DOMAIN appCfg :
          /\ appCfg[a].updated # 0 => PastService(appCfg[a].updated)
          /\ appCfg[a].status = "running" => appCfg[a].updated # 0
          /\ (appCfg[a].created # 0 /\ appCfg[a].updated = 0) =>
                /\ appCfg[a].status = "stopped"
                /\ appCfg[a].deployPath = DeployPath(a))
    /\ [](liveConfig.run # 0 =>
          /\ PastService(liveConfig.run)
          /\ appCfg[queue[liveConfig.run].app].updated = liveConfig.run
          /\ HasDomain(domains, queue[liveConfig.run].app))
    /\ [][\A i \in DOMAIN passes :
             (StepFail(i) /\ passes[i].pc # "proxy") =>
                 \A a \in DOMAIN appCfg :
                     /\ appCfg'[a].status = appCfg[a].status
                     /\ appCfg'[a].deployPath = appCfg[a].deployPath]_vars

\* A run of an application with a bound domain has completed: it updated the
\* row to 'running' after its service step and then reloaded the proxy.
C30_Witness ==
    \E q \in DOMAIN queue :
        /\ queue[q].status = "completed"
        /\ liveConfig.run = q
        /\ appCfg[queue[q].app].updated = q
        /\ appCfg[queue[q].app].status = "running"
        /\ HasDomain(domains, queue[q].app)

\* The lines a failing step leaves in the log: an error's message, the
\* pipeline's error line, the warning of a failed env-file regeneration.
FailureLines ==
    {StepError[st].message : st \in DOMAIN StepError}
        \cup {StepError[st].log : st \in DOMAIN StepError}
        \cup {"Warning: Failed to update environment file"}

\* C31: once a step of a run has failed, no later step of that run is
\* executed and the entry ends failed with the partial log and the error
\* message: in an entry's log only failure lines follow a failure line, an
\* entry with a failure line in its log is not completed, and a failed
\* entry has an error message.
C31_FailureShortCircuits ==
    \A q \in DOMAIN queue :
        /\ \A k \in DOMAIN queue[q].logs :
              queue[q].logs[k] \in FailureLines =>
                  /\ queue[q].status # "completed"
                  /\ \A j \in (k + 1)..Len(queue[q].logs) :
                        queue[q].logs[j] \in FailureLines
        /\ queue[q].status = "failed" => queue[q].err # "none"

\* C32: when a step emits stream-end with final status S for an entry, the
\* entry's durable status after that step is S; and the status field of
\* every progress event is the durable status the entry has as the step
\* emits it.
C32_EndStatusDurable ==
    [][\A k \in DOMAIN emitted' :
          LET e == emitted'[k] IN
          /\ e.ev = "deploy:log-stream-end" =>
                queue'[e.queueId].status = e.status
          /\ e.ev = "deploy:log-stream" =>
                e.status = queue[e.queueId].status]_vars

\* C33: when deleteApp of an application has returned while an entry for it,
\* submitted before the deletion, was still queued or building, and the
\* queue has drained since (no other entry for the application was
\* submitted), the application has no row, no service and no deploy
\* directory.
C33_DeleteIsFinal ==
    (/\ del.pc = "done" /\ del.result = "ok" /\ del.pending # {}
     /\ passes = <<>>
     /\ \A q \in DOMAIN queue :
           /\ queue[q].status \in Terminal
           /\ queue[q].app = del.app => q \in del.pending)
    => /\ apps[del.app] = "none"
       /\ services[del.app] = 0
       /\ hostFiles[del.app] \cap {"service", "dir"} = {}

\* C34: the worker's wake-up timers do not accumulate: at most one 5 s
\* reschedule timer and at most one 100 ms submit nudge are pending.
C34_TimersBounded == periodic <= 1 /\ nudges <= 1

\* C35: a row the stopped process left building is never selected after
\* the restart: it stays building, no pass takes it and its pipeline is not
\* run; a row left queued is taken by the first pass after the restart (the
\* constructor's) and run once.
C35_RestartRecovery ==
    \A q \in DOMAIN queue :
        /\ queue[q].left = "building" =>
              /\ queue[q].status = "building"
              /\ runs[q] = 0
              /\ \A i \in DOMAIN passes : passes[i].cur # q
        /\ queue[q].left = "queued" =>
              /\ queue[q].status # "queued"
              /\ runs[q] = 1

\* A row left building by the stopped process is still building, never run,
\* after a later entry has been processed to its end and the worker is idle.
C35_Witness ==
    /\ Len(queue) = 2
    /\ queue[1].left = "building" /\ queue[1].status = "building"
    /\ queue[2].status \in Terminal /\ runs[2] = 1
    /\ ~isProcessing

\* C36: an application whose persisted status is 'running' has a service
\* that is running: the system has not stopped it since it was started.
C36_RunningMeansStarted ==
    \A a \in DOMAIN appCfg :
        appCfg[a].status = "running" => "active" \in hostFiles[a]

\* C37: in the rendered config every site address heads at most one block.
C37_SiteAddressesDistinct ==
    Rendering =>
        \A i, j \in DOMAIN Rendered :
            Rendered[i].site = Rendered[j].site => i = j

\* ---------------------------------------------------------------------
\* The runtime of a unit, created and then reported
\* ---------------------------------------------------------------------

UnitNext ==
    \/ \E a \in AppNames, r \in {"node", "python", "bun"},
          p \in {"start", "run start", "run bundle", "server.js", "app.py",
                 "main.py", "run python", "index.ts", "run bun", "run dev"} :
          createService(a, r, p)
    \/ \E a \in AppNames : getStatus(a)

UnitSpec == StreamInit /\ [][UnitNext]_vars

\* C38: the runtime getStatus reports for a unit is the runtime createService
\* was given for it, whatever the runtime and the start command.
C38_RuntimeRoundTrips ==
    [][\A a \in AppNames :
          getStatus(a) => detected'[a] = execStarts[a].runtime]_vars

\* ---------------------------------------------------------------------
\* TaskScheduler: schedule and cancel calls, and timers firing
\* ---------------------------------------------------------------------

TaskNext ==
    \/ \E id \in TaskIds, fn \in TaskFns : Schedule(id, fn)
    \/ \E id \in TaskIds : Cancel(id)
    \/ \E t \in DOMAIN timeouts : Fire(t)

TaskSpec == StreamInit /\ [][TaskNext]_vars

\* C39: an id has at most one pending timer; after cancel(id) none of its
\* timers is pending, and after schedule(id, g) only the new one is.
C39_OnePendingTimer ==
    /\ [](\A id \in TaskIds : Cardinality(Pending(id)) <= 1)
    /\ [][\A id \in TaskIds :
            /\ Cancel(id) => Pending(id)' = {}
            /\ \A fn \in TaskFns :
                  Schedule(id, fn) => Pending(id)' = {Len(timeouts')}]_vars

\* C40: the ids getAllTasks lists are exactly the ids with a pending timer.
C40_TableMirrorsTimers ==
    getAllTasks = {id \in TaskIds : Pending(id) # {}}

====
